---------------------------- MODULE Spec2Model ----------------------------
(***************************************************************************)
(* Model of bill_splitter_bot (src/bot.py): the per-chat Bill, the chat    *)
(* handlers that mutate it (on_text, on_callback), the allocation          *)
(* calculator compute_summary_details and the web-app payload formatter    *)
(* _format_webapp_message.                                                 *)
(*                                                                         *)
(* Encoding of numbers.  The program computes with decimal.Decimal under   *)
(* the default context (28 significant digits, ROUND_HALF_EVEN).  A        *)
(* Decimal is modelled as a record [c |-> coefficient, e |-> exponent]     *)
(* of value c * 10^e, the coefficient a big-endian sequence of 4-digit     *)
(* limbs, and every arithmetic operator rounds its exact result to 28     *)
(* significant digits as the Decimal context does.  Quantities stored in   *)
(* the bill (qty_total, assigned) are held as integers in thousandths      *)
(* (1000 = one unit): they are sums of parsed quantities, of 1 and of      *)
(* 3-decimal group shares, far below 28 digits, so Decimal computes them   *)
(* exactly.  line_total is held in whole currency units.                   *)
(***************************************************************************)
EXTENDS Integers, Sequences, FiniteSets, TLC

\* ------------------------------------------------------------------------
\* decimal.Decimal, default context
\* ------------------------------------------------------------------------

\* getcontext().prec of the decimal module (bot.py uses the default context)
PREC == 28

\* Q3 = Decimal("0.001"): exponent of the unit-price and group-share quantum
Q3 == -3

\* Q2 = Decimal("0.01"): exponent of the service quantum
Q2 == -2

\* A coefficient is a big-endian sequence of limbs, each four decimal
\* digits, without leading zero limbs (<<0>> is zero).
BASE == 10^4

Front(s) == SubSeq(s, 1, Len(s) - 1)

Zeros(k) == [i \in 1..k |-> 0]

RECURSIVE StripZeros(_)
StripZeros(c) ==
    IF Len(c) > 1 /\ c[1] = 0 THEN StripZeros(Tail(c)) ELSE c

RECURSIVE NatToLimbs(_)
NatToLimbs(n) ==
    IF n < BASE THEN <<n>> ELSE Append(NatToLimbs(n \div BASE), n % BASE)

RECURSIVE LimbsToNat(_)
LimbsToNat(c) ==
    IF c = <<>> THEN 0 ELSE LimbsToNat(Front(c)) * BASE + c[Len(c)]

IsZeroC(c) == \A i \in 1..Len(c) : c[i] = 0

DigitsOf(x) == IF x < 10 THEN 1 ELSE IF x < 100 THEN 2 ELSE IF x < 1000 THEN 3 ELSE 4

\* number of decimal digits of a coefficient
NumDigits(c) == 4 * (Len(c) - 1) + DigitsOf(c[1])

\* limbs of c * m + carry, for a machine integer m
RECURSIVE MulCarry(_, _, _)
MulCarry(c, m, carry) ==
    IF c = <<>> THEN (IF carry = 0 THEN <<>> ELSE NatToLimbs(carry))
    ELSE LET t == c[Len(c)] * m + carry
         IN  Append(MulCarry(Front(c), m, t \div BASE), t % BASE)

MulSmall(c, m) ==
    LET r == MulCarry(c, m, 0) IN IF r = <<>> THEN <<0>> ELSE StripZeros(r)

\* limbs of a + b + carry for coefficients of equal length
RECURSIVE AddCarry(_, _, _)
AddCarry(a, b, carry) ==
    IF a = <<>> THEN (IF carry = 0 THEN <<>> ELSE <<carry>>)
    ELSE LET t == a[Len(a)] + b[Len(b)] + carry
         IN  Append(AddCarry(Front(a), Front(b), t \div BASE), t % BASE)

AddC(a, b) ==
    LET n == IF Len(a) > Len(b) THEN Len(a) ELSE Len(b)
    IN  StripZeros(AddCarry(Zeros(n - Len(a)) \o a, Zeros(n - Len(b)) \o b, 0))

IncC(a) == AddC(a, <<1>>)

\* c * m for any machine integer m >= 0: m = mh * BASE + ml
MulNat(c, m) ==
    IF m < BASE THEN MulSmall(c, m)
    ELSE AddC(MulSmall(c, m \div BASE) \o <<0>>, MulSmall(c, m % BASE))

\* long division of c by a machine integer 0 < m <= 200000
RECURSIVE DivSteps(_, _)
DivSteps(c, m) ==
    IF c = <<>> THEN [q |-> <<>>, r |-> 0]
    ELSE LET p == DivSteps(Front(c), m)
             t == p.r * BASE + c[Len(c)]
         IN  [q |-> Append(p.q, t \div m), r |-> t % m]

DivModSmall(c, m) ==
    LET p == DivSteps(c, m) IN [q |-> StripZeros(p.q), r |-> p.r]

\* c * 10^k
ShiftLeft(c, k) ==
    IF IsZeroC(c) THEN <<0>>
    ELSE MulSmall(c, 10^(k % 4)) \o Zeros(k \div 4)

\* c with its last k decimal digits dropped and the rest rounded on them:
\* ROUND_HALF_EVEN when halfEven, ROUND_HALF_UP otherwise
\* keep is the coefficient that stays; the dropped digits are lead (those
\* of the last kept limb, or the first dropped limb) followed by rest, and
\* half is one half of the last kept place in the scale of lead
RoundsUp(keep, lead, half, rest, halfEven) ==
    \/ lead > half
    \/ lead = half /\ ~IsZeroC(rest)
    \/ lead = half /\ IsZeroC(rest) /\ (halfEven => keep[Len(keep)] % 2 = 1)

RoundKept(keep, up) == IF up THEN IncC(keep) ELSE keep

\* the digits dropped are the limbs low and the last r digits of high;
\* dm is high divided by 10^r
DropSplit(high, low, r, dm, halfEven) ==
    IF r = 0
    THEN RoundKept(high, RoundsUp(high, low[1], 5000, Tail(low), halfEven))
    ELSE RoundKept(dm.q, RoundsUp(dm.q, dm.r, 5 * 10^(r - 1), low, halfEven))

DropLimbs(high, low, r, halfEven) ==
    DropSplit(high, low, r, DivModSmall(high, 10^r), halfEven)

DropDigits(c, k, halfEven) ==
    IF k <= 0 THEN c
    ELSE IF k > NumDigits(c) THEN <<0>>
    ELSE DropLimbs(IF k \div 4 >= Len(c) THEN <<0>>
                   ELSE SubSeq(c, 1, Len(c) - k \div 4),
                   SubSeq(c, Len(c) - k \div 4 + 1, Len(c)),
                   k % 4, halfEven)

Dec(c, e) == [c |-> c, e |-> e]

\* Decimal(n) of an int n >= 0
DecInt(n) == Dec(NatToLimbs(n), 0)

\* the Decimal of a quantity held in thousandths
DecMilli(m) == Dec(NatToLimbs(m), Q3)

\* the same value with the trailing zeros of the coefficient removed
RECURSIVE Normalize(_)
Normalize(d) ==
    IF IsZeroC(d.c) THEN Dec(<<0>>, 0)
    ELSE IF d.c[Len(d.c)] = 0 THEN Normalize(Dec(Front(d.c), d.e + 4))
    ELSE IF d.c[Len(d.c)] % 10 = 0
         THEN Normalize(Dec(DivModSmall(d.c, 10).q, d.e + 1))
    ELSE d

\* r is the rounded coefficient: rounding 99..9 up gives one digit too many
FixCarry(r, e) ==
    IF NumDigits(r) > PREC THEN Dec(DivModSmall(r, 10).q, e + 1) ELSE Dec(r, e)

FixDrop(d, k) == FixCarry(DropDigits(d.c, k, TRUE), d.e + k)

\* Decimal._fix: a result is rounded to the context precision, ROUND_HALF_EVEN
Fix(d) == IF NumDigits(d.c) <= PREC THEN d ELSE FixDrop(d, NumDigits(d.c) - PREC)

\* Decimal.__add__ of non-negative operands
AddAligned(x, y, e) == Fix(Dec(AddC(x, y), e))

\* the operand with the larger exponent is brought to the smaller one
DecAdd(a, b) ==
    IF a.e < b.e
    THEN AddAligned(a.c, ShiftLeft(b.c, b.e - a.e), a.e)
    ELSE AddAligned(ShiftLeft(a.c, a.e - b.e), b.c, b.e)

\* Decimal.__mul__; the shorter coefficient is a machine integer
MulBy(long, short, e) == Fix(Dec(MulNat(long, LimbsToNat(short)), e))

DecMul(a, b) ==
    IF IsZeroC(a.c) \/ IsZeroC(b.c) THEN Dec(<<0>>, a.e + b.e)
    ELSE MulBy(IF Len(a.c) >= Len(b.c) THEN a.c ELSE b.c,
               IF Len(a.c) >= Len(b.c) THEN b.c ELSE a.c, a.e + b.e)

\* Decimal.__truediv__: the quotient correctly rounded to PREC digits (one
\* digit more than PREC is computed and a non-zero remainder is made
\* visible in it, as decimal does); the divisor, with its trailing zeros
\* removed, is a machine integer
DivSticky(dm, e) ==
    Fix(Dec(RoundKept(dm.q, dm.r # 0 /\ dm.q[Len(dm.q)] % 5 = 0), e))

DivShifted(a, nb, shift) ==
    DivSticky(DivModSmall(ShiftLeft(a.c, shift), LimbsToNat(nb.c)),
              a.e - nb.e - shift)

DivBy(a, nb) == DivShifted(a, nb, NumDigits(nb.c) - NumDigits(a.c) + PREC + 1)

DecDiv(a, b) == IF IsZeroC(a.c) THEN Dec(<<0>>, 0) ELSE DivBy(a, Normalize(b))

\* Decimal.quantize(10^exp, rounding=ROUND_HALF_UP)
Quantize(d, exp) ==
    IF d.e >= exp THEN Dec(ShiftLeft(d.c, d.e - exp), exp)
    ELSE Dec(DropDigits(d.c, exp - d.e, FALSE), exp)

\* int(d.quantize(Decimal("1."), rounding=ROUND_HALF_UP))
RoundInt(d) == LimbsToNat(Quantize(d, 0).c)

\* d > 0
DecPos(d) == ~IsZeroC(d.c)

\* ------------------------------------------------------------------------
\* Data model
\* ------------------------------------------------------------------------

\* STATE maps a chat to its Bill; user_data is the dict of the user's
\* session (keys "mode", "group_selected_indices"); reply is the last message
\* a handler sent or edited; wad is the web-app payload of the update that
\* on_web_app_data handles; tasks are the handler coroutines that are
\* suspended at an await, empty where updates are handled one at a time.
VARIABLES State, user_data, reply, wad, tasks

vars == <<State, user_data, reply, wad, tasks>>

\* the chats of the model
Chats == {1}

\* A participant's name is an opaque display string: no branch reads it.
NAME == "name"

\* Bill(): dish and group names are display strings and are left out.
\* people: names; dishes: [qty_total, line_total, assigned], qty_total and
\* assigned in thousandths of a unit, line_total in thousandths of a
\* currency unit; groups: [members], 0-based indices into people.
EmptyBill ==
    [people |-> <<>>, dishes |-> <<>>, service_pct |-> 0, groups |-> <<>>]

RECURSIVE SeqSum(_)
SeqSum(s) == IF s = <<>> THEN 0 ELSE s[1] + SeqSum(Tail(s))

\* Dish.unit_price, as a Decimal
unit_price(d) ==
    IF d.qty_total = 0 THEN DecInt(0)
    ELSE Quantize(DecDiv(DecMilli(d.line_total), DecMilli(d.qty_total)), Q3)

\* ensure_assign_matrix that builds every list anew
ensure_assign_matrix_Rebuilt(bill) ==
    [bill EXCEPT !.dishes =
        [i \in DOMAIN bill.dishes |->
            [bill.dishes[i] EXCEPT !.assigned = Zeros(Len(bill.people))]]]

\* Bill.ensure_assign_matrix
ensure_assign_matrix(bill) ==
    [bill EXCEPT !.dishes =
        [i \in DOMAIN bill.dishes |->
            LET d == bill.dishes[i]
                need == Len(bill.people) - Len(d.assigned)
            IN  IF need > 0 THEN [d EXCEPT !.assigned = @ \o Zeros(need)]
                ELSE d]]

\* ------------------------------------------------------------------------
\* Assignment of units (on_callback, plus_p and plus_g)
\* ------------------------------------------------------------------------

\* the check without the unit that is about to be added
CapacityExceeded_NoUnit(d) == SeqSum(d.assigned) > d.qty_total

\* the check that lets one unit too many through
CapacityExceeded_Late(d) == SeqSum(d.assigned) >= d.qty_total + 1000

\* (sum(d.assigned) + Decimal(1)) > d.qty_total
CapacityExceeded(d) == SeqSum(d.assigned) + 1000 > d.qty_total

\* the unit credited to the participant while the other entries are reset
AssignUnit_ResetOthers(d, p_idx) ==
    [d EXCEPT !.assigned =
        [i \in DOMAIN @ |-> IF i = p_idx + 1 THEN @[i] + 1000 ELSE 0]]

\* d.assigned[p_idx] = d.assigned[p_idx] + Decimal(1)
AssignUnit(d, p_idx) == [d EXCEPT !.assigned[p_idx + 1] = @ + 1000]

\* (Decimal(1) / Decimal(len(members))).quantize(Q3, ROUND_HALF_UP), in
\* thousandths
GroupShare(k) == LimbsToNat(Quantize(DecDiv(DecInt(1), DecInt(k)), Q3).c)

\* the loop over the members with the remainder to 1 credited to the first
\* member instead of the last
RECURSIVE CreditMembers_ResidualFirst(_, _, _, _, _)
CreditMembers_ResidualFirst(assigned, members, idx, share, total_added) ==
    IF idx > Len(members) THEN assigned
    ELSE CreditMembers_ResidualFirst(
             [assigned EXCEPT ![members[idx] + 1] =
                 @ + (IF idx = 1 THEN 1000 - (Len(members) - 1) * share
                      ELSE share)],
             members, idx + 1, share, total_added)

\* the loop over the members: every member but the last gets share, the
\* last one 1 - total_added
RECURSIVE CreditMembers(_, _, _, _, _)
CreditMembers(assigned, members, idx, share, total_added) ==
    IF idx > Len(members) THEN assigned
    ELSE LET m == members[idx] + 1
         IN  IF idx < Len(members)
             THEN CreditMembers([assigned EXCEPT ![m] = @ + share], members,
                                idx + 1, share, total_added + share)
             ELSE [assigned EXCEPT ![m] = @ + (1000 - total_added)]

\* every member, the last one too, gets the rounded share
AssignGroupUnit_NoResidual(d, members) ==
    [d EXCEPT !.assigned =
        [i \in DOMAIN @ |->
            IF \E j \in DOMAIN members : members[j] = i - 1
            THEN @[i] + GroupShare(Len(members)) ELSE @[i]]]

AssignGroupUnit(d, members) ==
    [d EXCEPT !.assigned =
        CreditMembers(@, members, 1, GroupShare(Len(members)), 0)]

\* d = Dish(...); d.assigned = [Decimal(0)] * len(bill.people);
\* bill.dishes.append(d)
AddDish(bill, qty, line_total) ==
    [bill EXCEPT !.dishes =
        Append(@, [qty_total |-> qty, line_total |-> line_total,
                   assigned |-> Zeros(Len(bill.people))])]

\* the participant added without an entry in the dishes
AddPerson_NoEntry(bill, name) == [bill EXCEPT !.people = Append(@, name)]

\* bill.people.append(name); for d in bill.dishes: d.assigned.append(0)
AddPerson(bill, name) ==
    [bill EXCEPT !.people = Append(@, name),
                 !.dishes = [i \in DOMAIN @ |->
                                [@[i] EXCEPT !.assigned = Append(@, 0)]]]

\* bill.groups.append(Group(name, members=selected.copy()))
AddGroup(bill, selected) ==
    [bill EXCEPT !.groups = Append(@, [members |-> selected])]

\* members = [m for m in group.members if 0 <= m < len(bill.people)]
ValidMembers(bill, group) ==
    SelectSeq(group.members, LAMBDA m : 0 <= m /\ m < Len(bill.people))

\* ------------------------------------------------------------------------
\* Summary (compute_summary_details)
\* ------------------------------------------------------------------------

\* one dish of the loop: assigned portions, then the remainder in equal
\* shares to everybody; per_person is a sequence of Decimals
\* per_person[i] += amount * unit
AddProduct(p, amount, unit) == DecAdd(p, DecMul(amount, unit))

\* take = d.assigned[i] for i < len(d.assigned)
TakeOf(d, i) == IF i <= Len(d.assigned) THEN d.assigned[i] ELSE 0

\* the loop over d.assigned, for the first n participants: a participant's
\* own units
RECURSIVE Taken(_, _, _, _)
Taken(per_person, d, n, unit) ==
    IF n = 0 \/ per_person = <<>> THEN <<>>
    ELSE Append(Taken(per_person, d, n - 1, unit),
                IF TakeOf(d, n) > 0
                THEN AddProduct(per_person[n], DecMilli(TakeOf(d, n)), unit)
                ELSE per_person[n])

\* share = left / n; each of the first n participants gets share * unit
RECURSIVE SpreadShare(_, _, _, _)
SpreadShare(taken, n, unit, share) ==
    IF n = 0 \/ taken = <<>> THEN <<>>
    ELSE Append(SpreadShare(taken, n - 1, unit, share),
                AddProduct(taken[n], share, unit))

\* the whole remainder of a dish charged to every participant
Spread_Undivided(taken, n, unit, left) ==
    IF left > 0
    THEN SpreadShare(taken, n, unit, DecMilli(left))
    ELSE taken

\* the unassigned remainder of a dish is spread over all participants
Spread(taken, n, unit, left) ==
    IF left > 0
    THEN SpreadShare(taken, n, unit, DecDiv(DecMilli(left), DecInt(n)))
    ELSE taken

\* the remainder taken to be the whole quantity of the dish
AccumulateUnit_WholeLeft(per_person, d, n, unit) ==
    Spread(Taken(per_person, d, n, unit), n, unit, d.qty_total)

AccumulateUnit(per_person, d, n, unit) ==
    Spread(Taken(per_person, d, n, unit), n, unit,
           d.qty_total - SeqSum(d.assigned))

\* one pass of "for d in bill.dishes"
Accumulate(per_person, d, n) == AccumulateUnit(per_person, d, n, unit_price(d))

RECURSIVE AccumulateAll(_, _, _)
AccumulateAll(per_person, dishes, n) ==
    IF dishes = <<>> THEN per_person
    ELSE AccumulateAll(Accumulate(per_person, dishes[1], n), Tail(dishes), n)

\* the service share with the fraction cut off
ServiceOf_Truncated(p, pct) == (p * pct) \div 100

\* int((Decimal(p) * pct / Decimal(100)).quantize(Decimal("1."), HALF_UP))
ServiceOf(p, pct) == RoundInt(DecDiv(DecMul(DecInt(p), DecInt(pct)), DecInt(100)))

\* n = max(1, len(bill.people))
PeopleCount(bill) == IF Len(bill.people) > 1 THEN Len(bill.people) ELSE 1

\* per_person_int: every amount rounded half-up to a whole unit
RECURSIVE RoundAll(_)
RoundAll(per_person) ==
    IF per_person = <<>> THEN <<>>
    ELSE Append(RoundAll(Front(per_person)),
                RoundInt(per_person[Len(per_person)]))

\* service_each: one service share per whole-unit amount
RECURSIVE ServiceEach(_, _)
ServiceEach(per_person_int, pct) ==
    IF per_person_int = <<>> THEN <<>>
    ELSE Append(ServiceEach(Front(per_person_int), pct),
                ServiceOf(per_person_int[Len(per_person_int)], pct))

\* the returned tuple
Details(per_person_int, service_each) ==
    [total_no_service |-> SeqSum(per_person_int),
     service_amount_total |-> SeqSum(service_each),
     per_person_int |-> per_person_int,
     service_each |-> service_each]

WithService(per_person_int, pct) ==
    Details(per_person_int, ServiceEach(per_person_int, pct))

compute_summary_details(bill) ==
    WithService(
        RoundAll(AccumulateAll([i \in 1..PeopleCount(bill) |-> DecInt(0)],
                               bill.dishes, PeopleCount(bill))),
        bill.service_pct)

\* ------------------------------------------------------------------------
\* Text messages: a message is a keyboard button or free text; free text is
\* its sequence of whitespace-separated tokens: a word, the word "шт", or
\* a number (value in thousandths)
\* ------------------------------------------------------------------------

Button(b) == [btn |-> b, toks |-> <<>>]
FreeText(toks) == [btn |-> "", toks |-> toks]
Word == [k |-> "word", v |-> 0]
Sht == [k |-> "sht", v |-> 0]
Num(v) == [k |-> "num", v |-> v]

\* the tokens of a message; a button's label has no digits
TokensOf(text) == IF text.btn # "" THEN <<Word>> ELSE text.toks

\* the parser without the check of the quantity and the sum
parse_dish_freeform_Unchecked(text) ==
    LET t == TokensOf(text)
        n == Len(t)
    IN  IF n >= 4 /\ t[n].k = "num" /\ t[n - 1].k = "sht" /\ t[n - 2].k = "num"
        THEN [ok |-> TRUE, qty |-> t[n - 2].v, line_total |-> t[n].v]
        ELSE IF n >= 2 /\ t[n].k = "num"
        THEN [ok |-> TRUE, qty |-> 1000, line_total |-> t[n].v]
        ELSE [ok |-> FALSE, qty |-> 0, line_total |-> 0]

\* parse_dish_freeform: "(name) (qty) шт (sum)", else "(name) (sum)" with
\* qty 1; ok = FALSE stands for the ValueError
parse_dish_freeform(text) ==
    LET t == TokensOf(text)
        n == Len(t)
        bad == [ok |-> FALSE, qty |-> 0, line_total |-> 0]
    IN  IF n >= 4 /\ t[n].k = "num" /\ t[n - 1].k = "sht" /\ t[n - 2].k = "num"
        THEN IF t[n - 2].v <= 0 \/ t[n].v < 0 THEN bad
             ELSE [ok |-> TRUE, qty |-> t[n - 2].v, line_total |-> t[n].v]
        ELSE IF n >= 2 /\ t[n].k = "num"
        THEN IF t[n].v < 0 THEN bad
             ELSE [ok |-> TRUE, qty |-> 1000, line_total |-> t[n].v]
        ELSE bad

\* int(text) followed by max(0, min(100, pct)); whole numbers are written
\* without a decimal point; ok = FALSE stands for the exception
parse_pct(text) ==
    LET t == TokensOf(text)
    IN  IF Len(t) = 1 /\ t[1].k = "num" /\ t[1].v % 1000 = 0
        THEN [ok |-> TRUE,
              pct |-> IF t[1].v \div 1000 > 100 THEN 100 ELSE t[1].v \div 1000]
        ELSE [ok |-> FALSE, pct |-> 0]

\* ------------------------------------------------------------------------
\* Handler plumbing
\* ------------------------------------------------------------------------

\* STATE.setdefault(chat_id, Bill())
BillOf(chat) == IF chat \in DOMAIN State THEN State[chat] ELSE EmptyBill

\* STATE[chat_id] = bill
Put(chat, bill) ==
    [c \in DOMAIN State \cup {chat} |-> IF c = chat THEN bill ELSE State[c]]

\* context.user_data.get(key, default)
GetUD(key, default) == IF key \in DOMAIN user_data THEN user_data[key] ELSE default

\* context.user_data[key] = value
SetUD(key, value) ==
    [k \in DOMAIN user_data \cup {key} |-> IF k = key THEN value ELSE user_data[k]]

\* context.user_data.pop(key, None)
PopUD(key) == [k \in DOMAIN user_data \ {key} |-> user_data[k]]

NoUserData == [k \in {} |-> 0]
NoBody == <<>>
NoReply == [msg |-> "", flash |-> "", body |-> NoBody]

\* reply_text / edit_message_text: flash is the warning the message opens
\* with and msg the message it appears in; of a message without a warning
\* nothing is recorded
Send(msg, flash) ==
    reply' = [msg |-> IF flash = "" THEN "" ELSE msg, flash |-> flash,
              body |-> NoBody]

\* ------------------------------------------------------------------------
\* on_text
\* ------------------------------------------------------------------------

\* "Новый счёт" that keeps the participants of the bill
TextNewBill_KeepingPeople(chat) ==
    /\ State' = Put(chat, [EmptyBill EXCEPT !.people = BillOf(chat).people])
    /\ UNCHANGED user_data
    /\ Send("new_bill", "started")

\* "Новый счёт": STATE[chat_id] = Bill(); user_data is not touched; the
\* message "Новый счёт начат. ..." is recorded as the flash "started"
TextNewBill(chat) ==
    /\ State' = Put(chat, EmptyBill)
    /\ UNCHANGED user_data
    /\ Send("new_bill", "started")

\* a button that opens an input mode
TextAsk(chat, mode, msg) ==
    /\ State' = Put(chat, BillOf(chat))
    /\ user_data' = SetUD("mode", mode)
    /\ Send(msg, "")

\* mode "svc"
TextService(chat, text) ==
    LET bill == BillOf(chat)
        p == parse_pct(text)
    IN  IF text = Button("cancel")
        THEN /\ State' = Put(chat, bill)
             /\ user_data' = PopUD("mode")
             /\ Send("cancelled", "")
        ELSE IF ~p.ok
        THEN /\ State' = Put(chat, bill)
             /\ UNCHANGED user_data
             /\ Send("ask_pct", "number_only")
        ELSE /\ State' = Put(chat, [bill EXCEPT !.service_pct = p.pct])
             /\ user_data' = PopUD("mode")
             /\ Send("pct_set", "")

\* mode "add_dish"
TextAddDish(chat, text) ==
    LET bill == BillOf(chat)
        p == parse_dish_freeform(text)
    IN  IF text = Button("cancel")
        THEN /\ State' = Put(chat, bill)
             /\ user_data' = PopUD("mode")
             /\ Send("cancelled", "")
        ELSE IF ~p.ok
        THEN /\ State' = Put(chat, bill)
             /\ UNCHANGED user_data
             /\ Send("ask_dish", "parse_error")
        ELSE /\ State' = Put(chat, AddDish(bill, p.qty, p.line_total))
             /\ user_data' = PopUD("mode")
             /\ Send("dish_added", "")

\* mode "add_person"; a message is never empty after strip(); the message
\* "Добавлен участник: ..." is recorded as the flash "added"
TextAddPerson(chat, text) ==
    LET bill == BillOf(chat)
    IN  IF text = Button("cancel")
        THEN /\ State' = Put(chat, bill)
             /\ user_data' = PopUD("mode")
             /\ Send("cancelled", "")
        ELSE /\ State' = Put(chat, AddPerson(bill, NAME))
             /\ user_data' = PopUD("mode")
             /\ Send("person_added", "added")

\* "Назначить"
TextAssign(chat) ==
    LET bill == BillOf(chat)
    IN  /\ State' = Put(chat, bill)
        /\ UNCHANGED user_data
        /\ IF bill.people = <<>> \/ bill.dishes = <<>>
           THEN Send("main", "need_data")
           ELSE Send("people", "")

\* the figures of the summary with the service taken from the base total
SummaryLines_ServiceOfTotal(bill, s) ==
    [base_total |-> s.total_no_service,
     service_total |-> ServiceOf(s.total_no_service, bill.service_pct),
     total |-> s.total_no_service
               + ServiceOf(s.total_no_service, bill.service_pct),
     per_base |-> [i \in DOMAIN bill.people |-> s.per_person_int[i]],
     per_svc |-> [i \in DOMAIN bill.people |-> s.service_each[i]],
     per_total |-> [i \in DOMAIN bill.people |->
                       s.per_person_int[i] + s.service_each[i]]]

\* the figures of the summary message: the bill's totals and one line per
\* participant
SummaryLines(bill, s) ==
    [base_total |-> s.total_no_service,
     service_total |-> s.service_amount_total,
     total |-> s.total_no_service + s.service_amount_total,
     per_base |-> [i \in DOMAIN bill.people |-> s.per_person_int[i]],
     per_svc |-> [i \in DOMAIN bill.people |-> s.service_each[i]],
     per_total |-> [i \in DOMAIN bill.people |->
                       s.per_person_int[i] + s.service_each[i]]]

SummaryMessage(bill) == SummaryLines(bill, compute_summary_details(bill))

\* "Рассчитать"
\* a calculation that settles the bill: it takes the service percent out of
\* the bill it has charged
TextCalculate_Settling(chat) ==
    LET bill == BillOf(chat)
    IN  /\ State' = Put(chat, [bill EXCEPT !.service_pct = 0])
        /\ UNCHANGED user_data
        /\ IF bill.people = <<>> \/ bill.dishes = <<>>
           THEN Send("main", "need_data")
           ELSE reply' = [msg |-> "summary", flash |-> "",
                          body |-> SummaryMessage(bill)]

TextCalculate(chat) ==
    LET bill == BillOf(chat)
    IN  /\ State' = Put(chat, bill)
        /\ UNCHANGED user_data
        /\ IF bill.people = <<>> \/ bill.dishes = <<>>
           THEN Send("main", "need_data")
           ELSE reply' = [msg |-> "summary", flash |-> "",
                          body |-> SummaryMessage(bill)]

TextFallback(chat) ==
    /\ State' = Put(chat, BillOf(chat))
    /\ UNCHANGED user_data
    /\ Send("main", "")

OnText(chat, text) ==
    /\ UNCHANGED <<wad, tasks>>
    /\ LET mode == GetUD("mode", "")
       IN  IF text = Button("new") THEN TextNewBill(chat)
           ELSE IF text = Button("svc") THEN TextAsk(chat, "svc", "ask_pct")
           ELSE IF mode = "svc" THEN TextService(chat, text)
           ELSE IF text = Button("dish") THEN TextAsk(chat, "add_dish", "ask_dish")
           ELSE IF mode = "add_dish" THEN TextAddDish(chat, text)
           ELSE IF text = Button("person") THEN TextAsk(chat, "add_person", "ask_person")
           ELSE IF mode = "add_person" THEN TextAddPerson(chat, text)
           ELSE IF text = Button("assign") THEN TextAssign(chat)
           ELSE IF text = Button("calc") THEN TextCalculate(chat)
           ELSE TextFallback(chat)

\* start
Start(chat) ==
    /\ State' = Put(chat, BillOf(chat))
    /\ Send("welcome", "")
    /\ UNCHANGED <<user_data, wad, tasks>>

\* ------------------------------------------------------------------------
\* on_callback; data is [op, a, b]: "plus_p:a:b", "group_toggle:a", ...
\* ------------------------------------------------------------------------

Data(op, a, b) == [op |-> op, a |-> a, b |-> b]

\* s with the first occurrence of x removed (list.remove)
RECURSIVE Remove(_, _)
Remove(s, x) ==
    IF s = <<>> THEN s
    ELSE IF s[1] = x THEN Tail(s) ELSE <<s[1]>> \o Remove(Tail(s), x)

InSeq(x, s) == \E i \in DOMAIN s : s[i] = x

\* show_assign_screen_person: silent when p_idx names nobody
ShowPerson(bill, p_idx, flash) ==
    IF p_idx < 0 \/ p_idx >= Len(bill.people) THEN UNCHANGED reply
    ELSE Send("assign_person", flash)

\* show_assign_screen_group
ShowGroup(bill, g_idx, flash) ==
    IF g_idx < 0 \/ g_idx >= Len(bill.groups) THEN UNCHANGED reply
    ELSE Send("assign_group", flash)

CbCreateGroup(chat) ==
    LET bill == BillOf(chat)
    IN  /\ State' = Put(chat, bill)
        /\ IF bill.people = <<>>
           THEN UNCHANGED user_data /\ Send("people", "need_person")
           ELSE /\ user_data' = SetUD("group_selected_indices", <<>>)
                /\ Send("group_select", "")

CbGroupToggle(chat, idx) ==
    LET selected == GetUD("group_selected_indices", <<>>)
    IN  /\ State' = Put(chat, BillOf(chat))
        /\ user_data' = SetUD("group_selected_indices",
                              IF InSeq(idx, selected) THEN Remove(selected, idx)
                              ELSE Append(selected, idx))
        /\ Send("group_select", "")

\* group_done without the check of the size of the selection
CbGroupDone_AnySize(chat) ==
    LET bill == BillOf(chat)
        selected == GetUD("group_selected_indices", <<>>)
    IN  IF \E i \in DOMAIN selected : selected[i] >= Len(bill.people)
        THEN /\ State' = Put(chat, bill)
             /\ UNCHANGED <<user_data, reply>>
        ELSE /\ State' = Put(chat, AddGroup(bill, selected))
             /\ user_data' = PopUD("group_selected_indices")
             /\ Send("people", "group_created")

\* the list comprehension over bill.people raises IndexError on an index
\* that names nobody: the handler stops there
CbGroupDone(chat) ==
    LET bill == BillOf(chat)
        selected == GetUD("group_selected_indices", <<>>)
    IN  IF Len(selected) < 2
        THEN /\ State' = Put(chat, bill)
             /\ UNCHANGED user_data
             /\ Send("group_select", "min_two")
        ELSE IF \E i \in DOMAIN selected : selected[i] >= Len(bill.people)
        THEN /\ State' = Put(chat, bill)
             /\ UNCHANGED <<user_data, reply>>
        ELSE /\ State' = Put(chat, AddGroup(bill, selected))
             /\ user_data' = PopUD("group_selected_indices")
             /\ Send("people", "group_created")

\* clear_person that empties the dishes for everybody
CbClearPerson_Everybody(chat, p_idx) ==
    LET bill == ensure_assign_matrix(BillOf(chat))
        cleared == [bill EXCEPT !.dishes = [i \in DOMAIN @ |->
                       [@[i] EXCEPT !.assigned = Zeros(Len(@))]]]
    IN  /\ State' = Put(chat, IF 0 <= p_idx /\ p_idx < Len(bill.people)
                              THEN cleared ELSE bill)
        /\ UNCHANGED user_data
        /\ ShowPerson(bill, p_idx, "cleared")

CbClearPerson(chat, p_idx) ==
    LET bill == ensure_assign_matrix(BillOf(chat))
        cleared == [bill EXCEPT !.dishes = [i \in DOMAIN @ |->
                       IF p_idx < Len(@[i].assigned)
                       THEN [@[i] EXCEPT !.assigned[p_idx + 1] = 0]
                       ELSE @[i]]]
    IN  /\ State' = Put(chat, IF 0 <= p_idx /\ p_idx < Len(bill.people)
                              THEN cleared ELSE bill)
        /\ UNCHANGED user_data
        /\ ShowPerson(bill, p_idx, "cleared")

\* plus_p: the bill after the press
PlusP(bill, p_idx, d_idx) ==
    IF d_idx < 0 \/ d_idx >= Len(bill.dishes)
       \/ p_idx < 0 \/ p_idx >= Len(bill.people)
    THEN bill
    ELSE IF CapacityExceeded(bill.dishes[d_idx + 1]) THEN bill
    ELSE [bill EXCEPT !.dishes[d_idx + 1] = AssignUnit(@, p_idx)]

CbPlusP(chat, p_idx, d_idx) ==
    LET bill == ensure_assign_matrix(BillOf(chat))
    IN  /\ UNCHANGED user_data
        /\ State' = Put(chat, PlusP(bill, p_idx, d_idx))
        /\ IF d_idx < 0 \/ d_idx >= Len(bill.dishes)
              \/ p_idx < 0 \/ p_idx >= Len(bill.people)
           THEN UNCHANGED reply
           ELSE IF CapacityExceeded(bill.dishes[d_idx + 1])
           THEN ShowPerson(bill, p_idx, "no_remainder")
           ELSE ShowPerson(bill, p_idx, "")

\* plus_g: the bill after the press
PlusG(bill, g_idx, d_idx) ==
    IF g_idx < 0 \/ g_idx >= Len(bill.groups)
       \/ d_idx < 0 \/ d_idx >= Len(bill.dishes)
    THEN bill
    ELSE IF CapacityExceeded(bill.dishes[d_idx + 1]) THEN bill
    ELSE IF ValidMembers(bill, bill.groups[g_idx + 1]) = <<>> THEN bill
    ELSE [bill EXCEPT !.dishes[d_idx + 1] =
              AssignGroupUnit(@, ValidMembers(bill, bill.groups[g_idx + 1]))]

CbPlusG(chat, g_idx, d_idx) ==
    LET bill == ensure_assign_matrix(BillOf(chat))
    IN  /\ UNCHANGED user_data
        /\ State' = Put(chat, PlusG(bill, g_idx, d_idx))
        /\ IF g_idx < 0 \/ g_idx >= Len(bill.groups)
              \/ d_idx < 0 \/ d_idx >= Len(bill.dishes)
           THEN UNCHANGED reply
           ELSE IF CapacityExceeded(bill.dishes[d_idx + 1])
           THEN ShowGroup(bill, g_idx, "no_remainder")
           ELSE IF ValidMembers(bill, bill.groups[g_idx + 1]) = <<>>
           THEN ShowGroup(bill, g_idx, "no_valid_members")
           ELSE ShowGroup(bill, g_idx, "")

OnCallback(chat, data) ==
    /\ UNCHANGED <<wad, tasks>>
    /\ LET bill == BillOf(chat)
       IN  IF data.op = "back_main"
           THEN State' = Put(chat, bill) /\ UNCHANGED user_data /\ Send("main", "")
           ELSE IF data.op \in {"back_people", "assign_back"}
           THEN State' = Put(chat, bill) /\ UNCHANGED user_data /\ Send("people", "")
           ELSE IF data.op = "create_group" THEN CbCreateGroup(chat)
           ELSE IF data.op = "group_toggle" THEN CbGroupToggle(chat, data.a)
           ELSE IF data.op = "group_clear"
           THEN /\ State' = Put(chat, bill)
                /\ user_data' = SetUD("group_selected_indices", <<>>)
                /\ Send("group_select", "")
           ELSE IF data.op = "group_cancel"
           THEN /\ State' = Put(chat, bill)
                /\ user_data' = PopUD("group_selected_indices")
                /\ Send("people", "")
           ELSE IF data.op = "group_done" THEN CbGroupDone(chat)
           ELSE IF data.op = "pick_person"
           THEN /\ State' = Put(chat, ensure_assign_matrix(bill))
                /\ UNCHANGED user_data
                /\ ShowPerson(bill, data.a, "")
           ELSE IF data.op = "pick_group"
           THEN /\ State' = Put(chat, IF data.a < 0 \/ data.a >= Len(bill.groups)
                                      THEN bill ELSE ensure_assign_matrix(bill))
                /\ UNCHANGED user_data
                /\ ShowGroup(bill, data.a, "")
           ELSE IF data.op = "clear_person" THEN CbClearPerson(chat, data.a)
           ELSE IF data.op = "plus_p" THEN CbPlusP(chat, data.a, data.b)
           ELSE IF data.op = "plus_g" THEN CbPlusG(chat, data.a, data.b)
           ELSE State' = Put(chat, bill) /\ UNCHANGED <<user_data, reply>>

\* ------------------------------------------------------------------------
\* The chat: any sequence of text messages and keyboard presses
\* ------------------------------------------------------------------------

MaxPeople == 3
MaxDishes == 2
MaxGroups == 1
MaxUnits == 2

\* "name 2 шт 28000", "name 45000", "name 0 шт 5000", "name", "10"
BotTexts ==
    {Button(b) : b \in {"new", "svc", "dish", "person", "assign", "cancel"}}
    \cup {FreeText(<<Word, Num(2000), Sht, Num(28000000)>>),
          FreeText(<<Word, Num(45000000)>>),
          FreeText(<<Word, Num(0), Sht, Num(5000000)>>),
          FreeText(<<Word>>),
          FreeText(<<Num(10000)>>)}

\* the callback data of the keyboards the bot can have sent
BotData ==
    {Data(op, 0, 0) : op \in {"back_main", "back_people", "assign_back",
                              "create_group", "group_clear", "group_cancel",
                              "group_done"}}
    \cup {Data(op, i, 0) : op \in {"group_toggle", "pick_person", "clear_person"},
                           i \in 0..(MaxPeople - 1)}
    \cup {Data("pick_group", g, 0) : g \in 0..(MaxGroups - 1)}
    \cup {Data("plus_p", i, d) : i \in 0..(MaxPeople - 1), d \in 0..(MaxDishes - 1)}
    \cup {Data("plus_g", g, d) : g \in 0..(MaxGroups - 1), d \in 0..(MaxDishes - 1)}

RECURSIVE AssignedTotal(_)
AssignedTotal(dishes) ==
    IF dishes = <<>> THEN 0
    ELSE SeqSum(dishes[1].assigned) + AssignedTotal(Tail(dishes))

\* the bills within the bounds
Bounded(bill) ==
    /\ Len(bill.people) <= MaxPeople
    /\ Len(bill.dishes) <= MaxDishes
    /\ Len(bill.groups) <= MaxGroups
    /\ AssignedTotal(bill.dishes) <= MaxUnits * 1000

Init ==
    /\ State = [c \in {} |-> EmptyBill]
    /\ user_data = NoUserData
    /\ reply = NoReply
    /\ wad = <<>>
    /\ tasks = <<>>

GroupOps ==
    {"create_group", "group_toggle", "group_clear", "group_cancel", "group_done"}

\* the bounds on the inputs: no dish, participant or group is started
\* beyond the bounds, and the service percent of a bill is entered once
TextAllowed(chat, text) ==
    LET bill == BillOf(chat)
    IN  /\ text = Button("dish") => Len(bill.dishes) < MaxDishes
        /\ text = Button("person") => Len(bill.people) < MaxPeople
        /\ text = Button("svc") => bill.service_pct = 0

\* participants are ticked from the top of the list down, so the members
\* of a group are in list order
DataAllowed(chat, data) ==
    LET selected == GetUD("group_selected_indices", <<>>)
    IN  /\ data.op \in GroupOps => Len(BillOf(chat).groups) < MaxGroups
        /\ data.op = "group_toggle" =>
              \A j \in DOMAIN selected : selected[j] <= data.a

Next ==
    \/ \E chat \in Chats : Start(chat)
    \/ \E chat \in Chats, text \in BotTexts :
          TextAllowed(chat, text) /\ OnText(chat, text) /\ Bounded(State'[chat])
    \/ \E chat \in Chats, data \in BotData :
          DataAllowed(chat, data) /\ OnCallback(chat, data) /\ Bounded(State'[chat])

Spec == Init /\ [][Next]_vars

\* ------------------------------------------------------------------------
\* Capacity of a dish
\* ------------------------------------------------------------------------

DishesOf(chat) == BillOf(chat).dishes

\* the sum of assigned over a set of 0-based participant indices
RECURSIVE SumOver(_, _)
SumOver(assigned, members) ==
    IF members = {} THEN 0
    ELSE LET m == CHOOSE x \in members : TRUE
         IN  assigned[m + 1] + SumOver(assigned, members \ {m})

C2_RejectedPlus ==
    [][\A chat \in Chats : \A data \in BotData :
          (/\ data.op \in {"plus_p", "plus_g"}
           /\ data.b < Len(DishesOf(chat))
           /\ SeqSum(DishesOf(chat)[data.b + 1].assigned) + 1000
                  > DishesOf(chat)[data.b + 1].qty_total
           /\ OnCallback(chat, data))
          => /\ State' = State
             /\ (data.op = "plus_p" /\ data.a < Len(BillOf(chat).people))
                   => reply' = [msg |-> "assign_person", flash |-> "no_remainder",
                                body |-> NoBody]
             /\ (data.op = "plus_g" /\ data.a < Len(BillOf(chat).groups))
                   => reply' = [msg |-> "assign_group", flash |-> "no_remainder",
                                body |-> NoBody]]_vars

\* the warning is on the group screen: a plus_g press was rejected
C2_Witness ==
    /\ reply.msg = "assign_group" /\ reply.flash = "no_remainder"
    /\ \E chat \in DOMAIN State : \E i \in DOMAIN State[chat].dishes :
          /\ SeqSum(State[chat].dishes[i].assigned) = State[chat].dishes[i].qty_total
          /\ State[chat].service_pct > 0

\* C3: a plus_g press that is carried out, for a group of k >= 2 members,
\* raises the sum of the dish's assigned entries over the members by exactly
\* one unit and changes no entry of a non-member and no other dish
C3_GroupUnitExact ==
    [][\A chat \in Chats : \A data \in BotData :
          (/\ data.op = "plus_g"
           /\ data.a < Len(BillOf(chat).groups)
           /\ data.b < Len(DishesOf(chat))
           /\ SeqSum(DishesOf(chat)[data.b + 1].assigned) + 1000
                  <= DishesOf(chat)[data.b + 1].qty_total
           /\ Len(BillOf(chat).groups[data.a + 1].members) >= 2
           /\ OnCallback(chat, data))
          => LET members == {BillOf(chat).groups[data.a + 1].members[j] :
                                j \in DOMAIN BillOf(chat).groups[data.a + 1].members}
                 before == DishesOf(chat)
                 after == State'[chat].dishes
             IN  /\ Len(after) = Len(before)
                 /\ SumOver(after[data.b + 1].assigned, members)
                       = SumOver(before[data.b + 1].assigned, members) + 1000
                 /\ \A p \in 0..(Len(before[data.b + 1].assigned) - 1) :
                       p \notin members
                          => after[data.b + 1].assigned[p + 1]
                                = before[data.b + 1].assigned[p + 1]
                 /\ \A i \in DOMAIN before :
                       i # data.b + 1 => after[i] = before[i]]_vars

\* a unit split in thirds, 0.333 + 0.333 + 0.334, next to a dish that is
\* still untouched
C3_Witness ==
    \E chat \in DOMAIN State :
        /\ \E g \in DOMAIN State[chat].groups : Len(State[chat].groups[g].members) = 3
        /\ \E i, j \in DOMAIN State[chat].dishes :
              /\ i # j
              /\ \E p \in DOMAIN State[chat].dishes[i].assigned :
                    State[chat].dishes[i].assigned[p] % 1000 = 334
              /\ SeqSum(State[chat].dishes[i].assigned) = 1000
              /\ SeqSum(State[chat].dishes[j].assigned) = 0

\* ------------------------------------------------------------------------
\* The summary of the bills a session can build
\* ------------------------------------------------------------------------

CalcPeople == 4
CalcDishes == 2
CalcUnits == 2
CalcPcts == {0, 10}

\* "name 45000", "name 2 шт 28000", "name 3 шт 90000", "name 2 шт 39",
\* "name 10"
CalcDishTexts ==
    {FreeText(<<Word, Num(45000000)>>),
     FreeText(<<Word, Num(2000), Sht, Num(28000000)>>),
     FreeText(<<Word, Num(3000), Sht, Num(90000000)>>),
     FreeText(<<Word, Num(2000), Sht, Num(39000)>>),
     FreeText(<<Word, Num(10000)>>)}

\* the member lists of the one group of such a bill
CalcGroups == {<<0, 1>>, <<0, 1, 2>>}

SeqsUpTo(S, k) == UNION {[1..m -> S] : m \in 0..k}

RECURSIVE AddPeople(_, _)
AddPeople(bill, n) == IF n = 0 THEN bill ELSE AddPeople(AddPerson(bill, NAME), n - 1)

RECURSIVE AddDishTexts(_, _)
AddDishTexts(bill, texts) ==
    IF texts = <<>> THEN bill
    ELSE LET p == parse_dish_freeform(texts[1])
         IN  AddDishTexts(AddDish(bill, p.qty, p.line_total), Tail(texts))

\* the bill after a press of plus_p or plus_g
Press(bill, data) ==
    IF data.op = "plus_p" THEN PlusP(bill, data.a, data.b)
    ELSE PlusG(bill, data.a, data.b)

RECURSIVE Replay(_, _)
Replay(bill, presses) ==
    IF presses = <<>> THEN bill
    ELSE Replay(Press(bill, presses[1]), Tail(presses))

\* every press is carried out
RECURSIVE Effective(_, _)
Effective(bill, presses) ==
    IF presses = <<>> THEN TRUE
    ELSE /\ Press(bill, presses[1]) # bill
         /\ Effective(Press(bill, presses[1]), Tail(presses))

CalcPresses(n, nd, members) ==
    {Data("plus_p", p, d) : p \in 0..(n - 1), d \in 0..(nd - 1)}
    \cup (IF members = <<>> THEN {} ELSE {Data("plus_g", 0, d) : d \in 0..(nd - 1)})

\* a session that sets the percent, adds the participants, the dishes and,
\* if it is used, the group, and then assigns units
SessionBill(n, pct, texts, members, presses) ==
    LET b0 == [EmptyBill EXCEPT !.service_pct = pct]
        b1 == AddDishTexts(AddPeople(b0, n), texts)
        b2 == IF members = <<>> THEN b1 ELSE AddGroup(b1, members)
    IN  Replay(b2, presses)

InitCalc ==
    /\ user_data = NoUserData
    /\ reply = NoReply
    /\ wad = <<>>
    /\ tasks = <<>>
    /\ \E chat \in Chats, n \in 0..CalcPeople, pct \in CalcPcts :
       \E texts \in SeqsUpTo(CalcDishTexts, CalcDishes) :
       \E members \in {m \in CalcGroups \cup {<<>>} : Len(m) <= n} :
       \E presses \in SeqsUpTo(CalcPresses(n, Len(texts), members), CalcUnits) :
          /\ members # <<>> => \E k \in DOMAIN presses : presses[k].op = "plus_g"
          /\ Effective(SessionBill(n, pct, texts, members, <<>>), presses)
          /\ State = [c \in {chat} |-> SessionBill(n, pct, texts, members, presses)]

NextCalc == \E chat \in Chats : OnText(chat, Button("calc"))

SpecCalc == InitCalc /\ [][NextCalc]_vars

\* ------------------------------------------------------------------------
\* The summary against exact arithmetic
\* ------------------------------------------------------------------------

\* the bill and the figures of a summary that has just been shown
SummaryShown(chat) == chat \in DOMAIN State /\ reply.msg = "summary"

\* round-half-up(line_total / qty_total, 3 decimals) in thousandths, as an
\* exact quotient: floor((2000 * line_total + qty_total) / (2 * qty_total))
ExactUnit(d) ==
    LimbsToNat(DivModSmall(AddC(MulNat(NatToLimbs(d.line_total), 2000),
                                NatToLimbs(d.qty_total)),
                           2 * d.qty_total).q)

\* n * 10^6 times the exact amount of participant i: the sum over the dishes
\* of unit * (n * assigned[i] + left), left counted when positive
RECURSIVE ExactNumerator(_, _, _)
ExactNumerator(dishes, i, n) ==
    IF dishes = <<>> THEN <<0>>
    ELSE LET d == dishes[1]
             left == d.qty_total - SeqSum(d.assigned)
             k == n * d.assigned[i] + (IF left > 0 THEN left ELSE 0)
         IN  AddC(MulNat(NatToLimbs(ExactUnit(d)), k),
                  ExactNumerator(Tail(dishes), i, n))

\* round-half-up to a whole unit of the exact amount of participant i:
\* floor((2 * numerator + n * 10^6) / (2 * n * 10^6))
ExactBase(bill, i) ==
    LET n == Len(bill.people)
        num == ExactNumerator(bill.dishes, i, n)
        x == AddC(MulSmall(num, 2), MulNat(<<1>>, n * 1000000))
    IN  LimbsToNat(DivModSmall(DivModSmall(x, 10000).q, 200 * n).q)

\* round-half-up of p * pct / 100
ExactService(p, pct) == (2 * p * pct + 100) \div 200

RECURSIVE TotalOfLines(_)
TotalOfLines(dishes) ==
    IF dishes = <<>> THEN 0
    ELSE dishes[1].line_total + TotalOfLines(Tail(dishes))

\* round-half-up of the sum of line_total, in whole units
RoundedBillTotal(bill) == (TotalOfLines(bill.dishes) + 500) \div 1000

Abs(x) == IF x < 0 THEN -x ELSE x

\* C4 as stated: every per-participant base of a summary is the exact amount
\* rounded half-up once
C4_ExactBase ==
    \A chat \in Chats :
        SummaryShown(chat) =>
            \A i \in DOMAIN State[chat].people :
                reply.body.per_base[i] = ExactBase(State[chat], i)

\* C5 as stated: the bases of a summary add up to the rounded sum of the
\* lines, give or take one unit per dish
C5_ConservationPerDish ==
    \A chat \in Chats :
        SummaryShown(chat) =>
            Abs(reply.body.base_total - RoundedBillTotal(State[chat]))
                <= Len(State[chat].dishes)

\* Scenario B: "name 2 шт 28000", two participants with one unit each, 10 %
ScenarioB ==
    [people |-> <<NAME, NAME>>,
     dishes |-> <<[qty_total |-> 2000, line_total |-> 28000000,
                   assigned |-> <<1000, 1000>>]>>,
     service_pct |-> 10, groups |-> <<>>]

\* C6: in a summary every service share is round-half-up of
\* base * service_pct / 100 of that participant's whole-unit base, the
\* service total is the sum of the shares, and Scenario B gives bases
\* 14000, services 1400 and totals 15400
C6_ServicePerPerson ==
    \A chat \in Chats :
        SummaryShown(chat) =>
            LET bill == State[chat]
                body == reply.body
            IN  /\ \A i \in DOMAIN bill.people :
                      /\ body.per_svc[i]
                            = ExactService(body.per_base[i], bill.service_pct)
                      /\ body.per_total[i] = body.per_base[i] + body.per_svc[i]
                /\ body.service_total = SeqSum(body.per_svc)
                /\ bill = ScenarioB =>
                      /\ body.per_base = <<14000, 14000>>
                      /\ body.per_svc = <<1400, 1400>>
                      /\ body.per_total = <<15400, 15400>>

\* a summary whose service total is not the rounded percentage of the base
\* total
C6_Witness ==
    \E chat \in Chats :
        /\ SummaryShown(chat)
        /\ reply.body.service_total
              # ExactService(reply.body.base_total, State[chat].service_pct)
        /\ \E i \in DOMAIN State[chat].people : reply.body.per_svc[i] > 0

\* ------------------------------------------------------------------------
\* The web app's result: update.message.web_app_data
\* ------------------------------------------------------------------------

\* The JSON sent by the web app has servicePercent, participants ([id]),
\* groups ([id, memberIds]) and dishes. A dish has qty and totalPrice (both
\* in thousandths), flatAssignments (a list when hasFlat, anything else
\* otherwise) and the older matrix assignments, one list of [type, id] per
\* unit. Ids are strings, on which str() changes nothing; Null stands for
\* None and "", which the code treats alike.
Null == ""

\* "a in id_to_idx" / id_to_idx[a]: the position of the last participant
\* with that id, 0 when there is none
RECURSIVE id_to_idx(_, _)
id_to_idx(participants, a) ==
    IF participants = <<>> \/ a = Null THEN 0
    ELSE IF participants[Len(participants)].id = a THEN Len(participants)
    ELSE id_to_idx(Front(participants), a)

\* indices: the positions of the member ids that are participants' ids
RECURSIVE MemberIndices(_, _)
MemberIndices(participants, member_ids) ==
    IF member_ids = <<>> THEN <<>>
    ELSE IF id_to_idx(participants, member_ids[1]) # 0
    THEN <<id_to_idx(participants, member_ids[1])>>
            \o MemberIndices(participants, Tail(member_ids))
    ELSE MemberIndices(participants, Tail(member_ids))

\* "a in group_map": some group has the id
InGroupMap(groups_data, a) == \E i \in DOMAIN groups_data : groups_data[i].id = a

\* group_map[a]: the indices of the last group with the id
RECURSIVE group_map(_, _, _)
group_map(groups_data, participants, a) ==
    IF groups_data = <<>> THEN <<>>
    ELSE IF groups_data[Len(groups_data)].id = a
    THEN MemberIndices(participants, groups_data[Len(groups_data)].memberIds)
    ELSE group_map(Front(groups_data), participants, a)

\* the matrix fallback, one unit: the id of the first entry of type
\* "participant", None if there is none
\* the id of the unit's first entry, whatever its type
FirstParticipant_AnyType(unit_assignees) ==
    IF unit_assignees = <<>> THEN Null ELSE unit_assignees[1].id

RECURSIVE FirstParticipant(_)
FirstParticipant(unit_assignees) ==
    IF unit_assignees = <<>> THEN Null
    ELSE IF unit_assignees[1].type = "participant" THEN unit_assignees[1].id
    ELSE FirstParticipant(Tail(unit_assignees))

RECURSIVE FromMatrix(_)
FromMatrix(matrix) ==
    IF matrix = <<>> THEN <<>>
    ELSE <<FirstParticipant(matrix[1])>> \o FromMatrix(Tail(matrix))

\* assignments: flatAssignments if it is a list, else from the matrix
Assignments(d) ==
    IF d.hasFlat THEN d.flatAssignments ELSE FromMatrix(d.assignments)

\* the list padded with None to qty_int, without the slice [:qty_int]
Expanded_Padded(assignments, qty_int) ==
    assignments \o [i \in 1..(qty_int - Len(assignments)) |-> Null]

\* assignments[:qty_int] after the list was padded with None to qty_int
RECURSIVE Expanded(_, _)
Expanded(assignments, qty_int) ==
    IF qty_int <= 0 THEN <<>>
    ELSE Append(Expanded(assignments, qty_int - 1),
                IF qty_int <= Len(assignments) THEN assignments[qty_int]
                ELSE Null)

\* per_base[idx] += amount
AddTo(per_base, idx, amount) == [per_base EXCEPT ![idx] = DecAdd(@, amount)]

\* for m_idx in members: per_base[m_idx] += share
RECURSIVE CreditShares(_, _, _)
CreditShares(per_base, members, share) ==
    IF members = <<>> THEN per_base
    ELSE AddTo(CreditShares(per_base, Front(members), share),
               members[Len(members)], share)

\* every member is credited the whole unit
CreditGroupUnit_Undivided(per_base, members, unit) ==
    CreditShares(per_base, members, unit)

\* share = unit / Decimal(len(members)), credited to every member
CreditGroupUnit(per_base, members, unit) ==
    CreditShares(per_base, members, DecDiv(unit, DecInt(Len(members))))

\* assigned_units += Decimal(1), with the new per_base
Assigned(per_base, acc) ==
    [per_base |-> per_base, assigned_units |-> acc.assigned_units + 1]

\* an entry that resolves to nothing uses its unit up all the same
CreditEntry_Counted(acc, a, unit, participants, groups_data) ==
    IF a = Null THEN acc
    ELSE IF id_to_idx(participants, a) # 0
    THEN Assigned(AddTo(acc.per_base, id_to_idx(participants, a), unit), acc)
    ELSE IF InGroupMap(groups_data, a)
            /\ group_map(groups_data, participants, a) # <<>>
    THEN Assigned(CreditGroupUnit(acc.per_base,
                                  group_map(groups_data, participants, a),
                                  unit), acc)
    ELSE Assigned(acc.per_base, acc)

\* one entry a of assignments[:qty_int]; acc is per_base with the number of
\* assigned units so far
CreditEntry(acc, a, unit, participants, groups_data) ==
    IF a = Null THEN acc
    ELSE IF id_to_idx(participants, a) # 0
    THEN Assigned(AddTo(acc.per_base, id_to_idx(participants, a), unit), acc)
    ELSE IF InGroupMap(groups_data, a)
            /\ group_map(groups_data, participants, a) # <<>>
    THEN Assigned(CreditGroupUnit(acc.per_base,
                                  group_map(groups_data, participants, a),
                                  unit), acc)
    ELSE acc

\* for a in assignments[:qty_int]
RECURSIVE CreditEntries(_, _, _, _, _)
CreditEntries(acc, entries, unit, participants, groups_data) ==
    IF entries = <<>> THEN acc
    ELSE CreditEntry(CreditEntries(acc, Front(entries), unit, participants,
                                   groups_data),
                     entries[Len(entries)], unit, participants, groups_data)

\* for i in range(len(participants)): per_base[i] += (share * unit)
RECURSIVE WebSpreadShare(_, _, _)
WebSpreadShare(per_base, share, unit) ==
    IF per_base = <<>> THEN <<>>
    ELSE Append(WebSpreadShare(Front(per_base), share, unit),
                DecAdd(per_base[Len(per_base)], DecMul(share, unit)))

\* left = qty - assigned_units; share = left / Decimal(len(participants))
WebSpread(acc, qty, unit) ==
    IF qty - 1000 * acc.assigned_units > 0
    THEN WebSpreadShare(acc.per_base,
                        DecDiv(DecMilli(qty - 1000 * acc.assigned_units),
                               DecInt(Len(acc.per_base))),
                        unit)
    ELSE acc.per_base

\* a dish with qty > 0, its unit price given; qty_int = int(qty)
WebDishUnit(per_base, d, unit, participants, groups_data) ==
    WebSpread(CreditEntries([per_base |-> per_base, assigned_units |-> 0],
                            Expanded(Assignments(d), d.qty \div 1000),
                            unit, participants, groups_data),
              d.qty, unit)

\* one pass of "for d in dishes"
WebDish(per_base, d, participants, groups_data) ==
    IF d.qty <= 0 THEN per_base
    ELSE WebDishUnit(per_base, d,
                     Quantize(DecDiv(DecMilli(d.totalPrice), DecMilli(d.qty)), Q3),
                     participants, groups_data)

RECURSIVE WebDishes(_, _, _, _)
WebDishes(per_base, dishes, participants, groups_data) ==
    IF dishes = <<>> THEN per_base
    ELSE WebDish(WebDishes(per_base, Front(dishes), participants, groups_data),
                 dishes[Len(dishes)], participants, groups_data)

\* per_base before rounding ("PER BASE BEFORE ROUNDING")
web_per_base(data) ==
    WebDishes([i \in DOMAIN data.participants |-> DecInt(0)], data.dishes,
              data.participants, data.groups)

\* base_total, in thousandths: the prices of the dishes with qty > 0
RECURSIVE web_base_total(_)
web_base_total(dishes) ==
    IF dishes = <<>> THEN 0
    ELSE web_base_total(Front(dishes))
            + (IF dishes[Len(dishes)].qty > 0
               THEN dishes[Len(dishes)].totalPrice ELSE 0)

\* (b * service_pct / Decimal(100)).quantize(Q2, rounding=ROUND_HALF_UP)
PercentOf(b, pct) == Quantize(DecDiv(DecMul(b, DecInt(pct)), DecInt(100)), Q2)

\* base_i of every participant
RECURSIVE WebBaseInts(_)
WebBaseInts(per_base) ==
    IF per_base = <<>> THEN <<>>
    ELSE Append(WebBaseInts(Front(per_base)), RoundInt(per_base[Len(per_base)]))

\* svc_i of every participant: per_svc rounded to a whole unit
RECURSIVE WebSvcInts(_, _)
WebSvcInts(per_base, pct) ==
    IF per_base = <<>> THEN <<>>
    ELSE Append(WebSvcInts(Front(per_base), pct),
                RoundInt(PercentOf(per_base[Len(per_base)], pct)))

\* the figures of the message: fmt_money of the three totals and one line
\* per participant
WebLines(base_i, svc_i, base_total, service_total) ==
    [base_total |-> RoundInt(base_total),
     service_total |-> RoundInt(service_total),
     total |-> RoundInt(DecAdd(base_total, service_total)),
     per_base |-> base_i,
     per_svc |-> svc_i,
     per_total |-> [i \in DOMAIN base_i |-> base_i[i] + svc_i[i]]]

WebBody(per_base, base_total, pct) ==
    WebLines(WebBaseInts(per_base), WebSvcInts(per_base, pct), base_total,
             PercentOf(base_total, pct))

\* _format_webapp_message; the flash "no_data" is "Нет данных для расчёта."
format_webapp_message(data) ==
    IF data.participants = <<>> \/ data.dishes = <<>>
    THEN [msg |-> "webapp", flash |-> "no_data", body |-> NoBody]
    ELSE [msg |-> "webapp", flash |-> "",
          body |-> WebBody(web_per_base(data),
                           DecMilli(web_base_total(data.dishes)),
                           data.servicePercent)]

\* the JSON object {}
NoData == [servicePercent |-> 0, participants |-> <<>>, groups |-> <<>>,
           dishes |-> <<>>]

\* a handler that keeps the result: the payload's service percent is
\* written to the chat's bill
OnWebAppData_Keeping(chat) ==
    /\ UNCHANGED <<user_data, wad, tasks>>
    /\ IF wad.kind = "none" THEN UNCHANGED <<State, reply>>
       ELSE IF wad.kind = "bad_json"
       THEN /\ reply' = [msg |-> "webapp", flash |-> "cannot_read",
                         body |-> NoBody]
            /\ UNCHANGED State
       ELSE /\ reply' = format_webapp_message(wad.data)
            /\ State' = Put(chat, [BillOf(chat) EXCEPT
                                      !.service_pct = wad.data.servicePercent])

\* on_web_app_data: wad is [kind, data], of kind "none" (no web_app_data),
\* "bad_json" (json.loads raises) or "json"
OnWebAppData(chat) ==
    /\ UNCHANGED <<State, user_data, wad, tasks>>
    /\ IF wad.kind = "none" THEN UNCHANGED reply
       ELSE IF wad.kind = "bad_json"
       THEN reply' = [msg |-> "webapp", flash |-> "cannot_read", body |-> NoBody]
       ELSE reply' = format_webapp_message(wad.data)

\* ------------------------------------------------------------------------
\* SpecWeb: on_web_app_data on the results a web app can send
\* ------------------------------------------------------------------------

WebPeople == 3
WebUnits == 2

\* servicePercent
WebPcts == {12, 50}

WebIds == <<"p_1", "p_2", "p_3", "p_4">>

\* participants p_1 .. p_n
WebParticipants(n) == [i \in 1..n |-> [id |-> WebIds[i]]]

WebGroup(id, memberIds) == [id |-> id, memberIds |-> memberIds]

\* groups: none; g_1 = {p_1, p_2}; g_1 and g_2 = {p_2, p_3}; g_1 of three;
\* g_1 with an unknown member only; g_1 naming a member twice
WebGroups ==
    {<<>>,
     <<WebGroup("g_1", <<"p_1", "p_2">>)>>,
     <<WebGroup("g_1", <<"p_1", "p_2">>), WebGroup("g_2", <<"p_2", "p_3">>)>>,
     <<WebGroup("g_1", <<"p_1", "p_2", "p_3">>)>>,
     <<WebGroup("g_1", <<"zz">>)>>,
     <<WebGroup("g_1", <<"p_1", "p_1">>)>>}

\* entries of flatAssignments: participants, groups, an id nobody has, None
WebRefs == {"p_1", "p_3", "g_1", "g_2", "zz", Null}

FlatDish(qty, totalPrice, flat) ==
    [qty |-> qty, totalPrice |-> totalPrice, hasFlat |-> TRUE,
     flatAssignments |-> flat, assignments |-> <<>>]

MatrixDish(qty, totalPrice, matrix) ==
    [qty |-> qty, totalPrice |-> totalPrice, hasFlat |-> FALSE,
     flatAssignments |-> <<>>, assignments |-> matrix]

\* the flatAssignments lists of at most k entries
FlatsUpTo(k) == UNION {[1..j -> WebRefs] : j \in 0..k}

FlatDishes(qty, totalPrice, k) ==
    {FlatDish(qty, totalPrice, flat) : flat \in FlatsUpTo(k)}

\* the dishes lists: one dish (1 for 100000, 1 for 140000, 2 for 10, 1.5 for
\* 30000, a list longer than qty, qty 0, the matrix form), the two dishes
\* for 100000 and 140000, or none
WebDishLists ==
    {<<>>}
    \cup {<<d>> : d \in FlatDishes(1000, 100000000, 1)
                      \cup FlatDishes(1000, 140000000, 1)
                      \cup FlatDishes(1000 * WebUnits, 10000, WebUnits)
                      \cup FlatDishes(1500, 30000000, 1)
                      \cup {FlatDish(1000, 100000000, <<"p_1", "p_1">>),
                            FlatDish(0, 500000, <<"p_1">>),
                            MatrixDish(1000, 100000000, <<>>),
                            MatrixDish(1000, 100000000,
                                <<<<[type |-> "group", id |-> "g_1"],
                                    [type |-> "participant", id |-> "p_1"]>>>>),
                            MatrixDish(1000 * WebUnits, 10000,
                                <<<<[type |-> "participant", id |-> "p_2"],
                                    [type |-> "participant", id |-> "p_1"]>>,
                                  <<[type |-> "group", id |-> "g_1"]>>>>)}}
    \cup {<<d1, d2>> : d1 \in FlatDishes(1000, 100000000, 1),
                       d2 \in FlatDishes(1000, 140000000, 1)}

WebPayloads ==
    {[servicePercent |-> pct, participants |-> WebParticipants(n),
      groups |-> g, dishes |-> ds] :
        pct \in WebPcts, n \in 0..WebPeople, g \in WebGroups,
        ds \in WebDishLists}

\* a legacy payload: the summary computed by the sender, with the defaults
\* of data.get for the keys it does not have
LegacyPayload(people) ==
    [servicePercent |-> 0, participants |-> <<>>, groups |-> <<>>,
     dishes |-> <<>>,
     base_total |-> SeqSum([i \in DOMAIN people |-> people[i].base]),
     service_pct |-> 10,
     service_total |-> SeqSum([i \in DOMAIN people |-> people[i].service]),
     total |-> SeqSum([i \in DOMAIN people |-> people[i].total]),
     people |-> people]

LegacyPayloads ==
    {LegacyPayload(<<[name |-> NAME, base |-> 45000, service |-> 4500,
                      total |-> 49500]>>),
     LegacyPayload(<<[name |-> NAME, base |-> 14000, service |-> 1400,
                      total |-> 15400],
                     [name |-> NAME, base |-> 14000, service |-> 1400,
                      total |-> 15400]>>)}

WebInputs ==
    {[kind |-> "none", data |-> NoData], [kind |-> "bad_json", data |-> NoData]}
    \cup {[kind |-> "json", data |-> data] :
              data \in WebPayloads \cup LegacyPayloads}

\* the bill of the chat when the update arrives: a new one, or one with a
\* participant and a dish assigned to them
WebBills ==
    {EmptyBill,
     [AddDish(AddPerson(EmptyBill, NAME), 1000, 45000000)
         EXCEPT !.dishes[1] = AssignUnit(@, 0)]}

InitWeb ==
    /\ State \in [Chats -> WebBills]
    /\ user_data = NoUserData
    /\ reply = NoReply
    /\ wad \in WebInputs
    /\ tasks = <<>>

NextWeb == \E chat \in Chats : OnWebAppData(chat)

SpecWeb == InitWeb /\ [][NextWeb]_vars

\* ------------------------------------------------------------------------
\* The web app's message against its payload (C7 - C10)
\* ------------------------------------------------------------------------

\* the message computed from the payload has just been sent
WebShown == wad.kind = "json" /\ reply.msg = "webapp" /\ reply.flash = ""

\* Scenario C: g_1 = {p_1, p_2}, g_2 = {p_2, p_3}, 100000 to g_1, 140000 to
\* g_2, 12 % service
ScenarioC ==
    [servicePercent |-> 12, participants |-> WebParticipants(3),
     groups |-> <<WebGroup("g_1", <<"p_1", "p_2">>),
                  WebGroup("g_2", <<"p_2", "p_3">>)>>,
     dishes |-> <<FlatDish(1000, 100000000, <<"g_1">>),
                  FlatDish(1000, 140000000, <<"g_2">>)>>]

\* what the entry a of a unit gives participant i: m shares out of k, where
\* k = 1 for a participant's own unit, k is the number of resolved members
\* for a group's unit (m the times i is among them), and k = 0 when the
\* entry resolves to nobody
UnitOwed(data, a, i) ==
    IF \E j \in DOMAIN data.participants : data.participants[j].id = a /\ a # Null
    THEN [m |-> IF data.participants[i].id = a THEN 1 ELSE 0, k |-> 1]
    ELSE IF \E g \in DOMAIN data.groups : data.groups[g].id = a
    THEN LET ids == data.groups[CHOOSE g \in DOMAIN data.groups :
                                    data.groups[g].id = a].memberIds
         IN  [m |-> Cardinality({x \in DOMAIN ids :
                                    ids[x] = data.participants[i].id}),
              k |-> Cardinality({x \in DOMAIN ids :
                                    \E j \in DOMAIN data.participants :
                                        data.participants[j].id = ids[x]})]
    ELSE [m |-> 0, k |-> 0]

\* round-half-up(totalPrice / qty, 3 decimals), in thousandths, as an exact
\* quotient
UnitMilli(d) ==
    (d.totalPrice \div d.qty) * 1000
        + (2000 * (d.totalPrice % d.qty) + d.qty) \div (2 * d.qty)

\* the units of the payload, each with its price and its entry: for every
\* dish with qty > 0 the first int(qty) entries of flatAssignments, None
\* where the list is shorter
RECURSIVE UnitsOf(_)
UnitsOf(dishes) ==
    IF dishes = <<>> THEN <<>>
    ELSE LET d == dishes[Len(dishes)]
         IN  UnitsOf(Front(dishes)) \o
             (IF d.qty <= 0 THEN <<>>
              ELSE [j \in 1..(d.qty \div 1000) |->
                      [unit |-> UnitMilli(d),
                       a |-> IF j <= Len(d.flatAssignments)
                             THEN d.flatAssignments[j] ELSE Null]])

\* every dish with qty > 0 is given in flatAssignments, in whole units, and
\* each unit to a participant or to a group of one to three resolved members
FullyAssigned(data) ==
    /\ \A j \in DOMAIN data.dishes :
          data.dishes[j].qty > 0 =>
              data.dishes[j].hasFlat /\ data.dishes[j].qty % 1000 = 0
    /\ \A u \in DOMAIN UnitsOf(data.dishes) :
          UnitOwed(data, UnitsOf(data.dishes)[u].a, 1).k \in 1..3

\* the exact amount of participant i for the units, in thousandths: whole
\* is the sum of floor(unit * m / k), sixths the sum of the remainders in
\* sixths of a thousandth
RECURSIVE OwedWhole(_, _, _)
OwedWhole(data, units, i) ==
    IF units = <<>> THEN 0
    ELSE LET o == UnitOwed(data, units[1].a, i)
         IN  (units[1].unit * o.m) \div o.k + OwedWhole(data, Tail(units), i)

RECURSIVE OwedSixths(_, _, _)
OwedSixths(data, units, i) ==
    IF units = <<>> THEN 0
    ELSE LET o == UnitOwed(data, units[1].a, i)
         IN  ((units[1].unit * o.m) % o.k) * (6 \div o.k)
                + OwedSixths(data, Tail(units), i)

\* round-half-up to a whole unit of the sum over the units of unit * m / k
ExactWebBase(data, i) ==
    (OwedWhole(data, UnitsOf(data.dishes), i)
        + OwedSixths(data, UnitsOf(data.dishes), i) \div 6 + 500) \div 1000

\* C7: when every unit of the payload goes to a participant or to a group
\* with resolved members, each participant's base in the message is the sum
\* of their own units' prices and of unit_price / k for every unit of a
\* group of k resolved members they belong to, rounded half-up; Scenario C
\* gives bases 50000, 120000, 70000, services 6000, 14400, 8400 and totals
\* 56000, 134400, 78400
C7_GroupUnitShares ==
    WebShown =>
        /\ FullyAssigned(wad.data) =>
              \A i \in DOMAIN wad.data.participants :
                  reply.body.per_base[i] = ExactWebBase(wad.data, i)
        /\ wad.data = ScenarioC =>
              /\ reply.body.per_base = <<50000, 120000, 70000>>
              /\ reply.body.per_svc = <<6000, 14400, 8400>>
              /\ reply.body.per_total = <<56000, 134400, 78400>>

\* the message for Scenario C, where p_2 has the shares of two groups
C7_Witness ==
    /\ WebShown
    /\ wad.data = ScenarioC
    /\ reply.body.per_base[2] = 50000 + 70000

\* a payload as the builder sends it: every dish in whole units and given
\* in flatAssignments of at most qty entries, every entry None, a
\* participant, or a group, and every group of distinct participants
WellFormed(data) ==
    /\ \A g \in DOMAIN data.groups :
          LET ids == data.groups[g].memberIds
          IN  /\ ids # <<>>
              /\ \A x \in DOMAIN ids :
                    /\ \E j \in DOMAIN data.participants :
                          data.participants[j].id = ids[x]
                    /\ \A y \in DOMAIN ids : ids[y] = ids[x] => y = x
    /\ \A j \in DOMAIN data.dishes :
          LET d == data.dishes[j]
          IN  /\ d.hasFlat /\ d.qty > 0 /\ d.qty % 1000 = 0
              /\ Len(d.flatAssignments) <= d.qty \div 1000
              /\ \A x \in DOMAIN d.flatAssignments :
                    \/ d.flatAssignments[x] = Null
                    \/ UnitOwed(data, d.flatAssignments[x], 1).k > 0

\* the index in bill.people of the participant with this id
PersonIndex(data, id) ==
    (CHOOSE j \in DOMAIN data.participants : data.participants[j].id = id) - 1

\* the engine's dish after the presses that the entries stand for: plus_p
\* for a participant, plus_g for a group, none for None
RECURSIVE Replayed(_, _, _)
Replayed(d, data, flat) ==
    IF flat = <<>> THEN d
    ELSE LET a == flat[Len(flat)]
             before == Replayed(d, data, Front(flat))
         IN  IF a = Null THEN before
             ELSE IF \E j \in DOMAIN data.participants :
                        data.participants[j].id = a
             THEN AssignUnit(before, PersonIndex(data, a))
             ELSE LET ids == data.groups[CHOOSE g \in DOMAIN data.groups :
                                            data.groups[g].id = a].memberIds
                  IN  AssignGroupUnit(before,
                          [x \in DOMAIN ids |-> PersonIndex(data, ids[x])])

\* the Bill of the payload: its participants, its service percent, and its
\* dishes with the units assigned through the engine
EngineBill(data) ==
    [people |-> [i \in DOMAIN data.participants |-> NAME],
     service_pct |-> data.servicePercent,
     groups |-> <<>>,
     dishes |-> [j \in DOMAIN data.dishes |->
                   Replayed([qty_total |-> data.dishes[j].qty,
                             line_total |-> data.dishes[j].totalPrice,
                             assigned |-> Zeros(Len(data.participants))],
                            data, data.dishes[j].flatAssignments)]]

\* C8: for every builder payload the bases of the participants in the web
\* app's message are the per_person_int of compute_summary_details for the
\* Bill that the same assignments give through the engine
C8_WebEqualsEngine ==
    WebShown /\ WellFormed(wad.data) =>
        reply.body.per_base
            = compute_summary_details(EngineBill(wad.data)).per_person_int

\* C9: in the message for a builder payload every participant's service is
\* round-half-up(base_i * servicePercent / 100) of the whole-unit base_i
\* shown for them, and the service total shown is the sum of these amounts
C9_ServiceOfWholeBase ==
    WebShown /\ WellFormed(wad.data) =>
        /\ \A i \in DOMAIN reply.body.per_base :
              reply.body.per_svc[i]
                  = ExactService(reply.body.per_base[i],
                                 wad.data.servicePercent)
        /\ reply.body.service_total = SeqSum(reply.body.per_svc)

\* an entry that names neither a participant nor a group with a resolved
\* member
Unresolved(data, a) ==
    /\ a # Null
    /\ \/ data.participants = <<>>
       \/ UnitOwed(data, a, 1).k = 0

\* the payload with None in the place of every such entry
Cleaned(data) ==
    [data EXCEPT !.dishes =
        [j \in DOMAIN @ |->
            [@[j] EXCEPT !.flatAssignments =
                [x \in DOMAIN @ |->
                    IF Unresolved(data, @[x]) THEN Null ELSE @[x]]]]]

\* the sum of Decimals without any rounding
RECURSIVE ExactSum(_)
ExactSum(ds) ==
    IF ds = <<>> THEN Dec(<<0>>, 0)
    ELSE LET s == ExactSum(Front(ds))
             d == ds[Len(ds)]
         IN  IF s.e < d.e
             THEN Dec(AddC(s.c, ShiftLeft(d.c, d.e - s.e)), s.e)
             ELSE Dec(AddC(ShiftLeft(s.c, s.e - d.e), d.c), d.e)

\* the sum of qty * unit_price over the dishes with qty > 0: thousandths
\* times thousandths
RECURSIVE DishesWorth(_)
DishesWorth(dishes) ==
    IF dishes = <<>> THEN Dec(<<0>>, 2 * Q3)
    ELSE LET d == dishes[Len(dishes)]
             rest == DishesWorth(Front(dishes))
         IN  IF d.qty <= 0 THEN rest
             ELSE Dec(AddC(rest.c, MulNat(NatToLimbs(UnitMilli(d)), d.qty)),
                      2 * Q3)

C11_LegacyPassThrough ==
    wad.kind = "json" /\ "people" \in DOMAIN wad.data /\ reply.msg = "webapp" =>
        /\ reply.flash = ""
        /\ reply.body.base_total = wad.data.base_total
        /\ reply.body.service_total = wad.data.service_total
        /\ reply.body.total = wad.data.total
        /\ reply.body.per_base
              = [i \in DOMAIN wad.data.people |-> wad.data.people[i].base]
        /\ reply.body.per_svc
              = [i \in DOMAIN wad.data.people |-> wad.data.people[i].service]
        /\ reply.body.per_total
              = [i \in DOMAIN wad.data.people |-> wad.data.people[i].total]

FullyTaken(d) == SeqSum(d.assigned) = d.qty_total

\* Scenario A: "name 45000", assigned to the first of the participants, 0 %
ScenarioA(bill) ==
    /\ bill.service_pct = 0
    /\ Len(bill.dishes) = 1
    /\ bill.dishes[1].qty_total = 1000
    /\ bill.dishes[1].line_total = 45000000
    /\ bill.dishes[1].assigned[1] = 1000

\* C13: a dish with sum(assigned) == qty_total adds no diffusion share: what
\* compute_summary_details adds for it to participant i is exactly
\* assigned[i] * unit, which is 0 for a participant with assigned[i] = 0;
\* so the bases of a bill whose dishes are all fully assigned are the sums
\* of assigned[i] * unit rounded half-up, and Scenario A gives 45000 to the
\* participant and 45000 in total
C13_FullDishNoDiffusion ==
    \A chat \in Chats :
        SummaryShown(chat) =>
            LET bill == State[chat]
                n == Len(bill.people)
            IN  /\ \A j \in DOMAIN bill.dishes :
                      FullyTaken(bill.dishes[j]) =>
                          \A i \in 1..n :
                              LET added == Accumulate([x \in 1..n |-> DecInt(0)],
                                                      bill.dishes[j], n)[i]
                              IN  /\ Normalize(added)
                                        = Normalize(Dec(
                                            MulNat(NatToLimbs(ExactUnit(bill.dishes[j])),
                                                   bill.dishes[j].assigned[i]),
                                            2 * Q3))
                                  /\ bill.dishes[j].assigned[i] = 0
                                        => IsZeroC(added.c)
                /\ (\A j \in DOMAIN bill.dishes : FullyTaken(bill.dishes[j])) =>
                      \A i \in 1..n :
                          /\ reply.body.per_base[i] = ExactBase(bill, i)
                          /\ (\A j \in DOMAIN bill.dishes :
                                 bill.dishes[j].assigned[i] = 0)
                                => reply.body.per_base[i] = 0
                /\ ScenarioA(bill) =>
                      /\ reply.body.per_base[1] = 45000
                      /\ reply.body.base_total = 45000
                      /\ reply.body.service_total = 0

\* the summary of Scenario A among three participants: the two without a
\* unit owe nothing
C13_Witness ==
    /\ SummaryShown(1)
    /\ ScenarioA(State[1])
    /\ reply.body.per_base = <<45000, 0, 0>>

\* ------------------------------------------------------------------------
\* The assignments of a dish in the web app's payload (C14, C15)
\* ------------------------------------------------------------------------

\* flatAssignments as a list of exactly int(qty) entries: the entry of the
\* list at the positions it has, None at the others
ExactlyQty(d) ==
    [u \in 1..(d.qty \div 1000) |->
        IF u <= Len(d.flatAssignments) THEN d.flatAssignments[u] ELSE Null]

\* the payload with every flatAssignments list brought to that form
WithExactLists(data) ==
    [data EXCEPT !.dishes =
        [j \in DOMAIN data.dishes |->
            IF data.dishes[j].hasFlat /\ data.dishes[j].qty > 0
            THEN [data.dishes[j] EXCEPT
                     !.flatAssignments = ExactlyQty(data.dishes[j])]
            ELSE data.dishes[j]]]

\* every dish has a flatAssignments list and every entry that is used is
\* None
NothingAssigned(data) ==
    \A j \in DOMAIN data.dishes :
        /\ data.dishes[j].hasFlat
        /\ \A u \in DOMAIN ExactlyQty(data.dishes[j]) :
              ExactlyQty(data.dishes[j])[u] = Null

\* C14: a flatAssignments list is used as exactly qty entries: the message
\* is that of the payload whose lists are padded with None up to qty and
\* cut after position qty; a unit whose entry is None is unassigned and is
\* spread: when no unit has another entry every participant's amount is
\* the same and the amounts add up to the worth of the dishes
C14_ListOfExactlyQty ==
    WebShown =>
        /\ reply = format_webapp_message(WithExactLists(wad.data))
        /\ web_per_base(wad.data) = web_per_base(WithExactLists(wad.data))
        /\ NothingAssigned(wad.data) =>
              /\ \A i \in DOMAIN wad.data.participants :
                    web_per_base(wad.data)[i] = web_per_base(wad.data)[1]
              /\ Quantize(ExactSum(web_per_base(wad.data)), -20)
                    = Quantize(DishesWorth(wad.data.dishes), -20)

\* a dish of one unit whose list names p_1 twice: the second entry is not
\* used, p_1 is charged one unit and p_2 nothing
C14_Witness ==
    /\ WebShown
    /\ wad.data.dishes = <<FlatDish(1000, 100000000, <<"p_1", "p_1">>)>>
    /\ reply.body.per_base = <<100000, 0>>

\* the participant id listed for a unit in the matrix: that of the first
\* entry of type "participant", None when there is no such entry
ListedParticipant(unit_assignees) ==
    IF \E k \in DOMAIN unit_assignees : unit_assignees[k].type = "participant"
    THEN unit_assignees[CHOOSE k \in DOMAIN unit_assignees :
            /\ unit_assignees[k].type = "participant"
            /\ \A m \in 1..(k - 1) : unit_assignees[m].type # "participant"].id
    ELSE Null

\* the payload with, for every dish without a flatAssignments list, the
\* list that holds at position u the participant listed for unit u
MatrixAsFlat(data) ==
    [data EXCEPT !.dishes =
        [j \in DOMAIN data.dishes |->
            IF data.dishes[j].hasFlat THEN data.dishes[j]
            ELSE FlatDish(data.dishes[j].qty, data.dishes[j].totalPrice,
                          [u \in DOMAIN data.dishes[j].assignments |->
                              ListedParticipant(data.dishes[j].assignments[u])])]]

\* C15: for a dish without a flatAssignments list the assignment of each
\* unit is taken from the assignments matrix: the message and the amounts
\* are those of the payload whose flatAssignments holds, at position u, the
\* participant id that the matrix lists for unit u, None where it lists no
\* participant
C15_MatrixAsFlatList ==
    WebShown =>
        /\ reply = format_webapp_message(MatrixAsFlat(wad.data))
        /\ web_per_base(wad.data) = web_per_base(MatrixAsFlat(wad.data))

\* two units for 10 in matrix form, the first listing p_2 and then p_1, the
\* second a group only: p_2 has the first unit, the second is spread
C15_Witness ==
    /\ WebShown
    /\ Len(wad.data.participants) = 2
    /\ Len(wad.data.dishes) = 1
    /\ ~wad.data.dishes[1].hasFlat
    /\ Len(wad.data.dishes[1].assignments) = 2
    /\ wad.data.groups = <<WebGroup("g_1", <<"p_1", "p_2">>)>>
    /\ web_per_base(wad.data) = web_per_base(
          [wad.data EXCEPT !.dishes =
              <<FlatDish(wad.data.dishes[1].qty, 10000, <<"p_2">>)>>])
    /\ reply.body.per_base[2] > reply.body.per_base[1]

\* ------------------------------------------------------------------------
\* Rejected dish lines (C16)
\* ------------------------------------------------------------------------

\* texts that are no dish: "name 0 шт 5000" (quantity 0), "name" and "10"
\* (neither pattern), and the labels of the buttons that are read as a dish
\* line in add-dish mode
NoDishTexts ==
    {FreeText(<<Word, Num(0), Sht, Num(5000000)>>),
     FreeText(<<Word>>),
     FreeText(<<Num(10000)>>),
     Button("person"), Button("assign")}

C17_WebAppDataKeepsState ==
    [][NextWeb =>
          /\ DOMAIN State' = DOMAIN State
          /\ \A chat \in DOMAIN State : State'[chat] = State[chat]]_vars

\* the bill of the chat has a participant and an assigned dish, and the
\* answer to undecodable data has been sent
C17_Witness ==
    /\ wad.kind = "bad_json"
    /\ reply.msg = "webapp" /\ reply.flash = "cannot_read"
    /\ \E chat \in DOMAIN State :
          /\ State[chat].people # <<>>
          /\ State[chat].dishes # <<>>
          /\ SeqSum(State[chat].dishes[1].assigned) > 0

\* ------------------------------------------------------------------------
\* SpecGroups: sessions that make several groups (C18, C19)
\* ------------------------------------------------------------------------

GrpPeople == 3
GrpDishes == 1
GrpGroups == 2
GrpUnits == 1

\* the buttons, a name, and "name 45000"
GroupTexts ==
    {Button(b) : b \in {"new", "dish", "person", "cancel"}}
    \cup {FreeText(<<Word>>), FreeText(<<Word, Num(45000000)>>)}

GroupData ==
    {Data(op, 0, 0) : op \in {"create_group", "group_clear", "group_cancel",
                              "group_done"}}
    \cup {Data(op, i, 0) : op \in {"group_toggle", "clear_person"},
                           i \in 0..(GrpPeople - 1)}
    \cup {Data("plus_p", i, d) : i \in 0..(GrpPeople - 1), d \in 0..(GrpDishes - 1)}
    \cup {Data("plus_g", g, d) : g \in 0..(GrpGroups - 1), d \in 0..(GrpDishes - 1)}

GroupBounded(bill) ==
    /\ Len(bill.people) <= GrpPeople
    /\ Len(bill.dishes) <= GrpDishes
    /\ Len(bill.groups) <= GrpGroups
    /\ AssignedTotal(bill.dishes) <= GrpUnits * 1000

\* no dish or participant is started beyond the bounds
GroupTextAllowed(chat, text) ==
    /\ text = Button("dish") => Len(BillOf(chat).dishes) < GrpDishes
    /\ text = Button("person") => Len(BillOf(chat).people) < GrpPeople

\* participants are ticked from the top of the list down
GroupDataAllowed(chat, data) ==
    data.op = "group_toggle" =>
        \A j \in DOMAIN GetUD("group_selected_indices", <<>>) :
            GetUD("group_selected_indices", <<>>)[j] <= data.a

NextGroups ==
    \/ \E chat \in Chats, text \in GroupTexts :
          GroupTextAllowed(chat, text) /\ OnText(chat, text)
              /\ GroupBounded(State'[chat])
    \/ \E chat \in Chats, data \in GroupData :
          GroupDataAllowed(chat, data) /\ OnCallback(chat, data)
              /\ GroupBounded(State'[chat])

SpecGroups == Init /\ [][NextGroups]_vars

\* the groups of the bill before a step are the first groups of the bill
\* after it, unaltered, and at most one group is new: the selection as it
\* is at the step
GroupsKept(chat) ==
    LET old == BillOf(chat).groups
        new == State'[chat].groups
    IN  /\ Len(new) \in {Len(old), Len(old) + 1}
        /\ \A g \in DOMAIN old : new[g] = old[g]
        /\ Len(new) = Len(old) + 1 =>
              new[Len(new)].members = GetUD("group_selected_indices", <<>>)

\* C18: in every reachable state every group of a bill has at least 2
\* members, pairwise distinct, each an index of a participant of the bill;
\* and no event but new-bill alters a group that exists: group_toggle and
\* group_clear of a new selection and every other event keep the groups,
\* a new group has the selection of the moment as its members, and a
\* group_done with fewer than 2 selected adds no group
C18_GroupsFixed ==
    /\ [](\A chat \in DOMAIN State : \A g \in DOMAIN State[chat].groups :
             LET members == State[chat].groups[g].members
             IN  /\ Len(members) >= 2
                 /\ \A x, y \in DOMAIN members :
                       members[x] = members[y] => x = y
                 /\ \A x \in DOMAIN members :
                       0 <= members[x] /\ members[x] < Len(State[chat].people))
    /\ [][\A chat \in Chats :
             /\ \A text \in GroupTexts \ {Button("new")} :
                   OnText(chat, text) => GroupsKept(chat)
             /\ \A data \in GroupData :
                   OnCallback(chat, data) =>
                       /\ GroupsKept(chat)
                       /\ data.op # "group_done"
                             => State'[chat].groups = BillOf(chat).groups
                       /\ Len(GetUD("group_selected_indices", <<>>)) < 2
                             => State'[chat].groups = BillOf(chat).groups]_vars

\* a bill with a group of participants 0 and 1 while a new selection, of
\* participants 1 and 2, is being made
C18_Witness ==
    \E chat \in DOMAIN State :
        /\ Len(State[chat].groups) = 1
        /\ State[chat].groups[1].members = <<0, 1>>
        /\ GetUD("group_selected_indices", <<>>) = <<1, 2>>

\* C19: a new-bill event leaves the chat with a bill that has no
\* participants, no dishes, no groups and service_pct = 0, whatever the
\* bill was before
C19_NewBillIsEmpty ==
    [][\A chat \in Chats :
          OnText(chat, Button("new")) =>
              /\ State'[chat].people = <<>>
              /\ State'[chat].dishes = <<>>
              /\ State'[chat].groups = <<>>
              /\ State'[chat].service_pct = 0
              /\ DOMAIN State' = DOMAIN State \cup {chat}]_vars

\* the new bill has been started while a selection of the participants of
\* the previous bill is still held in user_data
C19_Witness ==
    /\ reply.msg = "new_bill" /\ reply.flash = "started"
    /\ \E chat \in DOMAIN State : State[chat] = EmptyBill
    /\ Len(GetUD("group_selected_indices", <<>>)) >= 2

C21_PlusPFrame ==
    [][\A chat \in Chats : \A data \in BotData :
          (/\ data.op = "plus_p"
           /\ data.a < Len(BillOf(chat).people)
           /\ data.b < Len(DishesOf(chat))
           /\ SeqSum(DishesOf(chat)[data.b + 1].assigned) + 1000
                  <= DishesOf(chat)[data.b + 1].qty_total
           /\ OnCallback(chat, data))
          => LET before == BillOf(chat)
                 after == State'[chat]
             IN  /\ after.people = before.people
                 /\ after.groups = before.groups
                 /\ after.service_pct = before.service_pct
                 /\ Len(after.dishes) = Len(before.dishes)
                 /\ \A i \in DOMAIN before.dishes :
                       /\ after.dishes[i].qty_total = before.dishes[i].qty_total
                       /\ after.dishes[i].line_total = before.dishes[i].line_total
                       /\ Len(after.dishes[i].assigned)
                             = Len(before.dishes[i].assigned)
                       /\ \A p \in DOMAIN before.dishes[i].assigned :
                             after.dishes[i].assigned[p]
                                = before.dishes[i].assigned[p]
                                  + (IF i = data.b + 1 /\ p = data.a + 1
                                     THEN 1000 ELSE 0)
                 /\ reply'.flash = ""]_vars

\* the second participant has taken a unit of a dish of which the first
\* one holds a unit too, next to an untouched dish
C21_Witness ==
    /\ reply.flash = ""
    /\ \E chat \in DOMAIN State :
          /\ Len(State[chat].people) = 3
          /\ \E i, j \in DOMAIN State[chat].dishes :
                /\ State[chat].dishes[i].assigned = <<1000, 1000, 0>>
                /\ SeqSum(State[chat].dishes[j].assigned) = 0
                /\ i # j

\* ------------------------------------------------------------------------
\* The assignment matrix
\* ------------------------------------------------------------------------

\* the bill with every assigned list cut to its first k entries
CutLists(bill, k) ==
    [bill EXCEPT !.dishes = [i \in DOMAIN @ |->
        [@[i] EXCEPT !.assigned =
            SubSeq(@, 1, IF k < Len(@) THEN k ELSE Len(@))]]]

\* the bill with its first k participants
CutPeople(bill, k) == [bill EXCEPT !.people = SubSeq(@, 1, k)]

\* ensure_assign_matrix of the bill has the lists of the bill, each followed
\* by as many zeros as it is short of the number of participants
PadsOnly(bill) ==
    LET padded == ensure_assign_matrix(bill)
    IN  /\ padded.people = bill.people
        /\ padded.groups = bill.groups
        /\ padded.service_pct = bill.service_pct
        /\ Len(padded.dishes) = Len(bill.dishes)
        /\ \A i \in DOMAIN bill.dishes :
              LET before == bill.dishes[i].assigned
                  after == padded.dishes[i].assigned
              IN  /\ padded.dishes[i].qty_total = bill.dishes[i].qty_total
                  /\ padded.dishes[i].line_total = bill.dishes[i].line_total
                  /\ Len(after) = IF Len(before) < Len(bill.people)
                                  THEN Len(bill.people) ELSE Len(before)
                  /\ \A p \in DOMAIN after :
                        after[p] = IF p <= Len(before) THEN before[p] ELSE 0

\* C22: in every reachable state every dish's assigned list has exactly as
\* many entries as the bill has participants; a participant's name entered
\* in add-person mode appends the participant and a zero entry to every
\* dish and changes no other entry; and ensure_assign_matrix, of a bill
\* whose lists are shorter or longer than the list of participants, only
\* appends zeros: it shortens no list and changes no entry
C22_MatrixAligned ==
    /\ [](\A chat \in DOMAIN State :
             /\ \A i \in DOMAIN State[chat].dishes :
                   Len(State[chat].dishes[i].assigned) = Len(State[chat].people)
             /\ \A k \in 0..Len(State[chat].people) :
                   /\ PadsOnly(CutLists(State[chat], k))
                   /\ PadsOnly(CutPeople(State[chat], k)))
    /\ [][\A chat \in Chats : \A text \in BotTexts :
             (/\ GetUD("mode", "") = "add_person"
              /\ text.btn = ""
              /\ OnText(chat, text))
             => /\ State'[chat].people = Append(BillOf(chat).people, NAME)
                /\ State'[chat].groups = BillOf(chat).groups
                /\ State'[chat].service_pct = BillOf(chat).service_pct
                /\ Len(State'[chat].dishes) = Len(DishesOf(chat))
                /\ \A i \in DOMAIN DishesOf(chat) :
                      State'[chat].dishes[i] =
                          [DishesOf(chat)[i] EXCEPT !.assigned = Append(@, 0)]]_vars

\* a participant has just been added to a bill with a dish of which the
\* first participant holds a unit
C22_Witness ==
    /\ reply.flash = "added"
    /\ \E chat \in DOMAIN State :
          /\ Len(State[chat].people) = 2
          /\ \E i \in DOMAIN State[chat].dishes :
                State[chat].dishes[i].assigned = <<1000, 0>>

\* round-half-up of 1/k to three decimals, in thousandths
HalfUpShare(k) == (2000 + k) \div (2 * k)

\* group sizes for which the share is compared with HalfUpShare; 6 and 16
\* are the first sizes at which rounding down and rounding half-even differ
\* from rounding half-up
ShareSizes == {1, 2, 3, 6, 16}

\* C23: a plus_g press that is carried out, for a group with members
\* m1..mk in stored order, adds round-half-up(1/k, 3 decimals) to the entry
\* of each of the first k-1 members and 1 minus the sum of those shares to
\* the entry of the last member, and nothing to any other entry; for the
\* group sizes of the model every credited share is >= 0, and no assigned
\* entry is ever negative
C23_GroupShares ==
    /\ [](/\ \A k \in ShareSizes : GroupShare(k) = HalfUpShare(k)
          /\ \A chat \in DOMAIN State : \A i \in DOMAIN State[chat].dishes :
                \A p \in DOMAIN State[chat].dishes[i].assigned :
                    State[chat].dishes[i].assigned[p] >= 0)
    /\ [][\A chat \in Chats : \A data \in BotData :
             (/\ data.op = "plus_g"
              /\ data.a < Len(BillOf(chat).groups)
              /\ data.b < Len(DishesOf(chat))
              /\ SeqSum(DishesOf(chat)[data.b + 1].assigned) + 1000
                     <= DishesOf(chat)[data.b + 1].qty_total
              /\ OnCallback(chat, data))
             => LET members == BillOf(chat).groups[data.a + 1].members
                    k == Len(members)
                    last == 1000 - (k - 1) * HalfUpShare(k)
                    before == DishesOf(chat)[data.b + 1].assigned
                    after == State'[chat].dishes[data.b + 1].assigned
                IN  /\ HalfUpShare(k) >= 0 /\ last >= 0
                    /\ Len(after) = Len(before)
                    /\ \A j \in DOMAIN members :
                          after[members[j] + 1] = before[members[j] + 1]
                              + (IF j < k THEN HalfUpShare(k) ELSE last)
                    /\ \A p \in DOMAIN before :
                          (\A j \in DOMAIN members : members[j] + 1 # p)
                             => after[p] = before[p]]_vars

\* a unit split in thirds, 0.333 + 0.333 + 0.334 in the order of the members
C23_Witness ==
    \E chat \in DOMAIN State : \E i \in DOMAIN State[chat].dishes :
        /\ State[chat].dishes[i].assigned = <<333, 333, 334>>
        /\ State[chat].groups = <<[members |-> <<0, 1, 2>>]>>

\* what is left of a dish
Remaining(d) == d.qty_total - SeqSum(d.assigned)

\* C24: a clear_person press for a participant p of the bill sets
\* assigned[p] to 0 in every dish and changes no entry of anybody else, so
\* that what is left of each dish grows by exactly what p held; a press for
\* an index that names no participant changes nothing
C24_ClearPersonFrame ==
    [][\A chat \in Chats : \A data \in BotData :
          (data.op = "clear_person" /\ OnCallback(chat, data))
          => LET before == BillOf(chat)
                 after == State'[chat]
             IN  IF data.a < Len(before.people)
                 THEN /\ after.people = before.people
                      /\ after.groups = before.groups
                      /\ after.service_pct = before.service_pct
                      /\ Len(after.dishes) = Len(before.dishes)
                      /\ \A i \in DOMAIN before.dishes :
                            /\ after.dishes[i].qty_total
                                  = before.dishes[i].qty_total
                            /\ after.dishes[i].line_total
                                  = before.dishes[i].line_total
                            /\ Len(after.dishes[i].assigned)
                                  = Len(before.dishes[i].assigned)
                            /\ \A p \in DOMAIN before.dishes[i].assigned :
                                  after.dishes[i].assigned[p] =
                                      IF p = data.a + 1 THEN 0
                                      ELSE before.dishes[i].assigned[p]
                            /\ Remaining(after.dishes[i])
                                  = Remaining(before.dishes[i])
                                    + before.dishes[i].assigned[data.a + 1]
                      /\ reply'.flash = "cleared"
                 ELSE after = before /\ reply' = reply]_vars

\* the first participant's half of a group unit has been cleared, the
\* other member's half is still there
C24_Witness ==
    /\ reply.msg = "assign_person" /\ reply.flash = "cleared"
    /\ \E chat \in DOMAIN State : \E i \in DOMAIN State[chat].dishes :
          /\ Len(State[chat].people) >= 2
          /\ State[chat].dishes[i].assigned[1] = 0
          /\ State[chat].dishes[i].assigned[2] = 500

\* the navigation and selection events
NavigationOps ==
    {"back_main", "back_people", "pick_person", "pick_group", "create_group",
     "group_toggle", "group_clear", "group_cancel", "group_done"}

\* the events that assign, clear or reset
AssigningOps == {"plus_p", "plus_g", "clear_person"}

\* every assigned entry the chat's bill has before the step is the same
\* after it
EntriesKept(chat) ==
    /\ Len(State'[chat].dishes) >= Len(DishesOf(chat))
    /\ \A i \in DOMAIN DishesOf(chat) :
          /\ Len(State'[chat].dishes[i].assigned)
                >= Len(DishesOf(chat)[i].assigned)
          /\ \A p \in DOMAIN DishesOf(chat)[i].assigned :
                State'[chat].dishes[i].assigned[p] = DishesOf(chat)[i].assigned[p]

\* C25: assigned quantities change only through plus_p, plus_g and
\* clear_person and are reset by new-bill: every other event keeps every
\* assigned entry, and the navigation and selection events (back_main,
\* back_people, pick_person, pick_group, create_group, group_toggle,
\* group_clear, group_cancel, group_done), stale ones with indices out of
\* range for the bill included, leave the dishes exactly as they are
C25_OnlyAssignEventsAssign ==
    [][\A chat \in Chats :
          /\ \A text \in BotTexts \ {Button("new")} :
                OnText(chat, text) => EntriesKept(chat)
          /\ \A data \in BotData :
                (data.op \notin AssigningOps /\ OnCallback(chat, data))
                => /\ EntriesKept(chat)
                   /\ data.op \in NavigationOps
                         => State'[chat].dishes = DishesOf(chat)]_vars

\* a group has been formed on a bill whose dish of two units is held by the
\* first participant, and the units are still there
C25_Witness ==
    /\ reply.msg = "people" /\ reply.flash = "group_created"
    /\ \E chat \in DOMAIN State : \E i \in DOMAIN State[chat].dishes :
          /\ Len(State[chat].people) >= 2
          /\ State[chat].dishes[i].assigned[1] = 2000

\* ------------------------------------------------------------------------
\* Handlers of one chat that interleave at their await points. A handler is
\* a coroutine: it runs without interruption from one await of a network
\* call (query.answer, reply_text, edit_message_text) to the next.
\* ------------------------------------------------------------------------

AsyncTasks == 2
AsyncPeople == 3
AsyncUnits == 1

\* a slot without a coroutine
Idle == [kind |-> "", data |-> Data("", 0, 0), pc |-> "idle"]

\* the updates: plus_p and plus_g presses on the dish and "Рассчитать"
AsyncEvents ==
    {[kind |-> "callback", data |-> Data("plus_p", p, 0)] :
        p \in 0..(AsyncPeople - 1)}
    \cup {[kind |-> "callback", data |-> Data("plus_g", 0, 0)],
          [kind |-> "text", data |-> Data("calc", 0, 0)]}

\* the bill when the updates arrive: a dish of two or of three units, a
\* group of two or of three, 10 %, some units taken
AsyncBills ==
    {SessionBill(AsyncPeople, 10, <<text>>, members, presses) :
        text \in {FreeText(<<Word, Num(2000), Sht, Num(28000000)>>),
                  FreeText(<<Word, Num(3000), Sht, Num(90000000)>>)},
        members \in CalcGroups,
        presses \in SeqsUpTo({Data("plus_p", 0, 0), Data("plus_g", 0, 0)},
                             AsyncUnits)}

InitAsync ==
    /\ State \in [Chats -> AsyncBills]
    /\ user_data = NoUserData
    /\ reply = NoReply
    /\ wad = <<>>
    /\ tasks = [s \in 1..AsyncTasks |-> Idle]

\* the application starts the handler of an update
Arrive(s, ev) ==
    /\ tasks[s].pc = "idle"
    /\ tasks' = [tasks EXCEPT ![s] = [kind |-> ev.kind, data |-> ev.data,
                                      pc |-> "new"]]
    /\ UNCHANGED <<State, user_data, reply, wad>>

\* on_callback up to "await query.answer()": nothing of the bill is read
Answer(s) ==
    /\ tasks[s].kind = "callback" /\ tasks[s].pc = "new"
    /\ tasks' = [tasks EXCEPT ![s].pc = "answered"]
    /\ UNCHANGED <<State, user_data, reply, wad>>

\* plus_p with the coroutine suspended between the capacity check and the
\* increment
RunCallback_Suspended(chat, s) ==
    LET data == tasks[s].data
        bill == ensure_assign_matrix(BillOf(chat))
    IN  /\ tasks[s].kind = "callback"
        /\ wad' = wad
        /\ IF tasks[s].pc = "answered" /\ data.op = "plus_p"
              /\ data.b < Len(bill.dishes) /\ data.a < Len(bill.people)
              /\ ~CapacityExceeded(bill.dishes[data.b + 1])
           THEN /\ tasks' = [tasks EXCEPT ![s].pc = "checked"]
                /\ UNCHANGED <<State, user_data, reply>>
           ELSE IF tasks[s].pc = "answered"
           THEN /\ tasks' = [tasks EXCEPT ![s].pc = "sending"]
                /\ IF data.op = "plus_p" THEN CbPlusP(chat, data.a, data.b)
                   ELSE CbPlusG(chat, data.a, data.b)
           ELSE /\ tasks[s].pc = "checked"
                /\ tasks' = [tasks EXCEPT ![s].pc = "sending"]
                /\ State' = Put(chat, [bill EXCEPT !.dishes[data.b + 1] =
                                          AssignUnit(@, data.a)])
                /\ UNCHANGED user_data
                /\ ShowPerson(bill, data.a, "")

\* on_callback from the return of query.answer() to the await of
\* edit_message_text in show_assign_screen_person / _group: the bill is
\* looked up, checked and changed, and the screen is built
RunCallback(chat, s) ==
    /\ tasks[s].kind = "callback" /\ tasks[s].pc = "answered"
    /\ tasks' = [tasks EXCEPT ![s].pc = "sending"]
    /\ wad' = wad
    /\ IF tasks[s].data.op = "plus_p"
       THEN CbPlusP(chat, tasks[s].data.a, tasks[s].data.b)
       ELSE CbPlusG(chat, tasks[s].data.a, tasks[s].data.b)

\* on_text for "Рассчитать" up to "await update.message.reply_text": the
\* summary is computed and formatted
RunText(chat, s) ==
    /\ tasks[s].kind = "text" /\ tasks[s].pc = "new"
    /\ tasks' = [tasks EXCEPT ![s].pc = "sending"]
    /\ wad' = wad
    /\ TextCalculate(chat)

\* the message has been sent: the handler returns
Sent(s) ==
    /\ tasks[s].pc = "sending"
    /\ tasks' = [tasks EXCEPT ![s] = Idle]
    /\ UNCHANGED <<State, user_data, reply, wad>>

NextAsync ==
    \/ \E s \in 1..AsyncTasks, ev \in AsyncEvents : Arrive(s, ev)
    \/ \E s \in 1..AsyncTasks : Answer(s)
    \/ \E chat \in Chats, s \in 1..AsyncTasks : RunCallback(chat, s)
    \/ \E chat \in Chats, s \in 1..AsyncTasks : RunText(chat, s)
    \/ \E s \in 1..AsyncTasks : Sent(s)

SpecAsync == InitAsync /\ [][NextAsync]_vars

\* the sum of the assigned entries of every dish of the chat's bill, after
\* a step, is what it was or one unit more
WholeUnitStep(chat) ==
    /\ Len(State'[chat].dishes) = Len(State[chat].dishes)
    /\ \A i \in DOMAIN State[chat].dishes :
          SeqSum(State'[chat].dishes[i].assigned)
              - SeqSum(State[chat].dishes[i].assigned) \in {0, 1000}

\* C26: with the handlers of a chat interleaving at their await points, the
\* capacity check and the credit of plus_p and of plus_g (all k members) are
\* one uninterrupted step: no dish ever has sum(assigned) > qty_total, in
\* every state the sum of each dish is a whole number of units (no unit is
\* credited to some members only), every step adds a whole unit or nothing,
\* and the summary of a calculate event is the summary of the bill as it is
\* in such a state
C26_AssignIsAtomic ==
    /\ [](\A chat \in DOMAIN State : \A i \in DOMAIN State[chat].dishes :
             /\ SeqSum(State[chat].dishes[i].assigned)
                   <= State[chat].dishes[i].qty_total
             /\ SeqSum(State[chat].dishes[i].assigned) % 1000 = 0)
    /\ [][\A chat \in Chats :
             /\ WholeUnitStep(chat)
             /\ \A s \in 1..AsyncTasks :
                   (tasks[s].kind = "text" /\ tasks'[s].pc = "sending"
                    /\ tasks[s].pc = "new")
                   => /\ reply'.msg = "summary"
                      /\ reply'.body = SummaryMessage(State[chat])
                      /\ State' = State]_vars

\* two presses for the last unit of the dish were handled at the same
\* time: one has taken it, the other has been told that nothing is left,
\* and both handlers are still sending their screens
C26_Witness ==
    /\ reply.flash = "no_remainder"
    /\ \A s \in 1..AsyncTasks :
          tasks[s].pc = "sending" /\ tasks[s].kind = "callback"
    /\ tasks[1].data.op = "plus_g" /\ tasks[2].data.op = "plus_p"
    /\ \E chat \in DOMAIN State :
          /\ SeqSum(State[chat].dishes[1].assigned)
                = State[chat].dishes[1].qty_total
          /\ \E p \in DOMAIN State[chat].dishes[1].assigned :
                State[chat].dishes[1].assigned[p] % 1000 = 334

\* ------------------------------------------------------------------------
\* Consistency of the summary
\* ------------------------------------------------------------------------

\* C27: the summary of a calculate event is consistent: the grand total is
\* base total + service total and equals the sum over the participants of
\* per_base[i] + per_svc[i]; the lists of the result have exactly one entry
\* per participant; and the calculation is run only for a bill with at
\* least one participant and one dish, any other bill being answered with
\* the request to add dishes and participants
C27_SummaryConsistent ==
    \A chat \in Chats :
        reply # NoReply =>
            LET bill == State[chat]
                body == reply.body
                s == compute_summary_details(bill)
            IN  IF bill.people = <<>> \/ bill.dishes = <<>>
                THEN reply = [msg |-> "main", flash |-> "need_data",
                              body |-> NoBody]
                ELSE /\ reply.msg = "summary"
                     /\ body.total = body.base_total + body.service_total
                     /\ body.total = SeqSum(body.per_total)
                     /\ \A i \in DOMAIN bill.people :
                           body.per_total[i] = body.per_base[i] + body.per_svc[i]
                     /\ Len(body.per_base) = Len(bill.people)
                     /\ Len(body.per_svc) = Len(bill.people)
                     /\ Len(body.per_total) = Len(bill.people)
                     /\ Len(s.per_person_int) = Len(bill.people)
                     /\ Len(s.service_each) = Len(bill.people)
                     /\ PeopleCount(bill) = Len(bill.people)

\* a summary for four participants and two dishes with a service charge
C27_Witness ==
    \E chat \in Chats :
        /\ SummaryShown(chat)
        /\ Len(State[chat].people) = 4
        /\ Len(State[chat].dishes) = 2
        /\ reply.body.service_total > 0
        /\ reply.body.total = SeqSum(reply.body.per_total)
        /\ reply.body.service_total
              # ExactService(reply.body.base_total, State[chat].service_pct)
=============================================================================
